---- MODULE Spec2Model ----
(***************************************************************************)
(* Model of the statistics synchronisation scripts of                      *)
(* stats-explorer-datagouv:                                                *)
(*   - scripts/sync-stats.ts        (full synchronisation)                 *)
(*   - scripts/sync-incremental.ts  (incremental synchronisation; its code *)
(*     is the second half of src/scripts/README.md, lines 176-846)         *)
(*                                                                         *)
(* Encoding.  A month string "YYYY-MM" is the integer YYYYMM (2024-03 is   *)
(* 202403): the digits are those of the string, so that the order of the   *)
(* integers is the lexicographic order of the fixed-width strings, which   *)
(* is what the code's `<=`, `>=` and localeCompare use on months.  A Date  *)
(* is a record [y, m, d] with m in 1..12; the scripts are run with the     *)
(* local time zone equal to UTC (the CI runner), so getMonth() and         *)
(* toISOString() read the same calendar date.                              *)
(***************************************************************************)
EXTENDS Integers, Sequences, FiniteSets, TLC

VARIABLES
    today,      \* the clock: the calendar date new Date() returns
    msLast,     \* MonthSpec: the argument of getMonthsToFetch
    msOut,      \* MonthSpec: what getMonthsToFetch returned
    mgExisting, \* MergeSpec: the existing monthly series (MonthlyStats[])
    mgUpdates,  \* MergeSpec: the batch of updates (DatasetMonthlyUpdate[])
    mgOut,      \* MergeSpec: the results of merging the batch once and twice
    rkStats,    \* RankSpec: the per-dataset statistics (DatasetStats[])
    rkMeta,     \* RankSpec: the metadata map of the full synchronisation
    rkOut,      \* RankSpec: the rankings computed from rkStats
    api,        \* the records the metric API serves
    fsGlobal,   \* public/data/global-stats.json
    fsTop,      \* public/data/top-datasets.json
    fsIndex,    \* public/data/datasets-index.json
    fsDatasets, \* public/data/datasets/<id>.json, per dataset id
    run,        \* the incremental run in progress and its position in main
    lastRun,    \* what the last run that ended did
    runs,       \* how many runs of the two scripts were started
    merged,     \* the months the incremental runs merged into global-stats.json
    ixExisting, \* IndexSpec: the datasets-index.json the script reads
    ixNew,      \* IndexSpec: the metadata map given to the script
    ixOut,      \* IndexSpec: the index the script built last
    pgPages,    \* PageSpec: the pages /datasets/data/ serves (dataset ids)
    pgMax,      \* PageSpec: options.maxDatasets (0: undefined)
    pgOut,      \* PageSpec: what fetchAllDatasetIds returned
    rt,         \* RetrySpec: fetchWithRetry's loop variable, and how it ended
    rtLog,      \* RetrySpec: the calls of fetch and sleep it made, in order
    dtId,       \* DetailSpec: the datasetId prop of DatasetDetail
    dtState,    \* DetailSpec: the useState values of DatasetDetail
    dtLoads,    \* DetailSpec: the calls of loadDataset and where each one is
    sqQuery,    \* SearchSpec: searchQuery of Home
    sqState,    \* SearchSpec: filteredDatasets and isSearchingAPI of Home
    sqRequests  \* SearchSpec: the searches started and where each one is

vars == << today, msLast, msOut, mgExisting, mgUpdates, mgOut,
           rkStats, rkMeta, rkOut,
           api, fsGlobal, fsTop, fsIndex, fsDatasets, run, lastRun, runs, merged,
           ixExisting, ixNew, ixOut,
           pgPages, pgMax, pgOut,
           rt, rtLog,
           dtId, dtState, dtLoads,
           sqQuery, sqState, sqRequests >>
monthVars == << msLast, msOut >>
mergeVars == << mgExisting, mgUpdates, mgOut >>
rankVars == << rkStats, rkMeta, rkOut >>
fileVars == << fsGlobal, fsTop, fsIndex, fsDatasets >>
pipeVars == << api, fsGlobal, fsTop, fsIndex, fsDatasets, run, lastRun, runs, merged >>
indexVars == << ixExisting, ixNew, ixOut >>
pageVars == << pgPages, pgMax, pgOut >>
scriptVars == << monthVars, mergeVars, rankVars, pipeVars, indexVars >>
retryVars == << rt, rtLog >>
detailVars == << dtId, dtState, dtLoads >>
searchVars == << sqQuery, sqState, sqRequests >>
laterVars == << pageVars, retryVars, detailVars, searchVars >>

-----------------------------------------------------------------------------
(* Dates and months                                                        *)

\* "YYYY-MM" of a year and a 1-based month: Date.toISOString().slice(0, 7)
MonthStr(y, m) == y * 100 + m

\* month.split('-').map(Number)
YearOf(month) == month \div 100
MonthNumOf(month) == month % 100

\* '2022-07': the first month of the statistics (the start of the all-time
\* window, the default startDate)
StatsStart == 202207

IsLeapYear(y) == (y % 4 = 0 /\ y % 100 # 0) \/ y % 400 = 0

\* number of days of the month with 0-based index m0 of year y
DaysInMonth(y, m0) ==
    IF m0 = 1 THEN (IF IsLeapYear(y) THEN 29 ELSE 28)
    ELSE IF m0 \in {3, 5, 8, 10} THEN 30 ELSE 31

\* The calendar date a JS Date holds after being given year y, a 0-based month
\* index m0 that may lie outside 0..11 and a day d in 1..31 that may exceed the
\* length of the month: the month index carries into the year, the excess days
\* carry into the next month (MakeDay/MakeDate of ECMA-262).
DateNorm(y, m0, d) ==
    LET t   == y * 12 + m0
        yy  == t \div 12
        mm  == t % 12
        dim == DaysInMonth(yy, mm)
    IN  IF d <= dim
        THEN [y |-> yy, m |-> mm + 1, d |-> d]
        ELSE [y |-> (t + 1) \div 12, m |-> ((t + 1) % 12) + 1, d |-> d - dim]

getCurrentMonth(now) == MonthStr(now.y, now.m)

\* date.setMonth(date.getMonth() - months); date.toISOString().slice(0, 7)
getMonthsAgo(now, months) ==
    LET date == DateNorm(now.y, (now.m - 1) - months, now.d)
    IN  MonthStr(date.y, date.m)

\* faulty variant: the successor without the roll-over of month 12
getNextMonth_NoRollover(month) == month + 1

\* new Date(Date.UTC(year, monthNum, 1)).toISOString().slice(0, 7)
getNextMonth(month) ==
    LET year     == YearOf(month)
        monthNum == MonthNumOf(month)
        date     == DateNorm(year, monthNum, 1)
    IN  MonthStr(date.y, date.m)

\* The while loop of getMonthsToFetch, unrolled at most `fuel` times; done is
\* TRUE when the loop condition became false, FALSE when the fuel ran out.
RECURSIVE MonthsLoop(_, _, _, _)
MonthsLoop(current, now, months, fuel) ==
    IF current <= now
    THEN IF fuel = 0
         THEN [months |-> months, done |-> FALSE]
         ELSE MonthsLoop(getNextMonth(current), now, Append(months, current), fuel - 1)
    ELSE [months |-> months, done |-> TRUE]

LoopFuel == 60

getMonthsToFetchRun(lastMonth, now) ==
    MonthsLoop(getNextMonth(lastMonth), getCurrentMonth(now), << >>, LoopFuel)

\* faulty variant: the months start at the last month itself
getMonthsToFetch_FromLast(lastMonth, now) ==
    MonthsLoop(lastMonth, getCurrentMonth(now), << >>, LoopFuel).months

getMonthsToFetch(lastMonth, now) == getMonthsToFetchRun(lastMonth, now).months

-----------------------------------------------------------------------------
(* Monthly series and their merge (sync-incremental.ts)                     *)

\* A Map<string, {visits, downloads}> keyed by month is the sequence of its
\* entries [month, visits, downloads] in insertion order.
MapIndex(map, month) ==
    IF \E i \in 1..Len(map) : map[i].month = month
    THEN CHOOSE i \in 1..Len(map) : map[i].month = month
    ELSE 0

\* map.get(month) || { visits: 0, downloads: 0 }
MapGetOrZero(map, month) ==
    IF MapIndex(map, month) = 0
    THEN [month |-> month, visits |-> 0, downloads |-> 0]
    ELSE map[MapIndex(map, month)]

\* map.set(month, { visits, downloads }): an existing key keeps its position
MapSet(map, month, visits, downloads) ==
    LET entry == [month |-> month, visits |-> visits, downloads |-> downloads]
    IN  IF MapIndex(map, month) = 0
        THEN Append(map, entry)
        ELSE [map EXCEPT ![MapIndex(map, month)] = entry]

\* for (const stat of existing) monthMap.set(stat.month, {...})
RECURSIVE LoadExisting(_, _)
LoadExisting(map, existing) ==
    IF existing = << >>
    THEN map
    ELSE LoadExisting(MapSet(map, Head(existing).month, Head(existing).visits,
                             Head(existing).downloads),
                      Tail(existing))

\* for (const update of newUpdates) { current = get || 0; set(current + update) }
RECURSIVE AddUpdates(_, _)
AddUpdates(map, newUpdates) ==
    IF newUpdates = << >>
    THEN map
    ELSE LET update  == Head(newUpdates)
             current == MapGetOrZero(map, update.month)
         IN  AddUpdates(MapSet(map, update.month,
                               current.visits + update.visits,
                               current.downloads + update.downloads),
                        Tail(newUpdates))

\* insertion of an entry into a series sorted by month; an entry with an equal
\* month goes after the ones already there (Array.prototype.sort is stable)
RECURSIVE InsertByMonth(_, _)
InsertByMonth(sorted, entry) ==
    IF sorted = << >>
    THEN << entry >>
    ELSE IF Head(sorted).month <= entry.month
         THEN << Head(sorted) >> \o InsertByMonth(Tail(sorted), entry)
         ELSE << entry >> \o sorted

\* Array.from(map.entries()).sort((a, b) => a[0].localeCompare(b[0]))
RECURSIVE SortByMonthFrom(_, _)
SortByMonthFrom(sorted, entries) ==
    IF entries = << >>
    THEN sorted
    ELSE SortByMonthFrom(InsertByMonth(sorted, Head(entries)), Tail(entries))

SortByMonth(entries) == SortByMonthFrom(<< >>, entries)

\* faulty variant: an update replaces the month's value instead of being added to it
mergeMonthlyData_Overwrite(existing, newUpdates) ==
    SortByMonth(LoadExisting(LoadExisting(<< >>, existing), newUpdates))

\* faulty variant: a month already present in the series is not merged again
mergeMonthlyData_SkipKnown(existing, newUpdates) ==
    SortByMonth(AddUpdates(
        LoadExisting(<< >>, existing),
        SelectSeq(newUpdates,
                  LAMBDA u : \A i \in 1..Len(existing) : existing[i].month # u.month)))

mergeMonthlyData(existing, newUpdates) ==
    SortByMonth(AddUpdates(LoadExisting(<< >>, existing), newUpdates))

\* array.reduce((sum, m) => sum + m.visits, 0)
RECURSIVE SumVisits(_)
SumVisits(series) ==
    IF series = << >> THEN 0 ELSE Head(series).visits + SumVisits(Tail(series))

RECURSIVE SumDownloads(_)
SumDownloads(series) ==
    IF series = << >> THEN 0 ELSE Head(series).downloads + SumDownloads(Tail(series))

\* fetchDatasetMetrics on the entries of all the pages of its query (`data`,
\* in the order of the pages): monthlyStats.set(entry.metric_month, ...) for
\* each entry, the totals summed over monthlyStats.values()
fetchDatasetMetricsOfData(datasetId, data) ==
    LET monthlyStats == LoadExisting(<< >>, data)
    IN  [ datasetId      |-> datasetId,
          monthlyStats   |-> monthlyStats,
          totalVisits    |-> SumVisits(monthlyStats),
          totalDownloads |-> SumDownloads(monthlyStats) ]

\* faulty variant: the totals are those of the new updates alone
updateGlobalStats_TotalOfUpdates(existing, allUpdates, totalDatasets) ==
    LET mergedMonthly == mergeMonthlyData(existing.monthlyStats, allUpdates)
    IN  [ totalVisits    |-> SumVisits(allUpdates),
          totalDownloads |-> SumDownloads(allUpdates),
          totalDatasets  |-> totalDatasets,
          startDate      |-> existing.startDate,
          monthlyStats   |-> mergedMonthly ]

\* GlobalStats without lastUpdate (a timestamp no computation reads)
updateGlobalStats(existing, allUpdates, totalDatasets) ==
    LET mergedMonthly == mergeMonthlyData(existing.monthlyStats, allUpdates)
    IN  [ totalVisits    |-> SumVisits(mergedMonthly),
          totalDownloads |-> SumDownloads(mergedMonthly),
          totalDatasets  |-> totalDatasets,
          startDate      |-> existing.startDate,
          monthlyStats   |-> mergedMonthly ]

\* readJsonFile returns null for a file that does not exist
NoFile == [exists |-> FALSE]

\* (faulty variant: the content is returned although JSON.parse threw)
readJsonFile_NoCatch(file, parses) == file

\* readJsonFile: null when the file does not exist or JSON.parse throws
\* (`parses`: whether the content on the disk is JSON)
readJsonFile(file, parses) ==
    IF ~file.exists THEN NoFile
    ELSE IF parses THEN file
    ELSE NoFile

\* monthlyStats[0]?.month || '' and monthlyStats[length - 1]?.month || ''
\* (the empty string is modelled as 0)
FirstMonthOf(monthlyStats) ==
    IF monthlyStats = << >> THEN 0 ELSE monthlyStats[1].month
\* (faulty variant: the month of the first element is taken for the last)
LastMonthOf_First(monthlyStats) ==
    IF monthlyStats = << >> THEN 0 ELSE monthlyStats[1].month
LastMonthOf(monthlyStats) ==
    IF monthlyStats = << >> THEN 0 ELSE monthlyStats[Len(monthlyStats)].month

\* metadata.organization?.name || 'Inconnu'
OrgName(metadata) ==
    IF metadata.organization = "" THEN "Inconnu" ELSE metadata.organization

\* faulty variant: the series is built from the new data alone
updateDatasetStats_NewOnly(existing, datasetId, newData, metadata) ==
    LET monthlyStats == SortByMonth(AddUpdates(<< >>,
                           SelectSeq(newData, LAMBDA u : u.datasetId = datasetId)))
    IN  [ exists         |-> TRUE,
          id             |-> datasetId,
          title          |-> metadata.title,
          organization   |-> OrgName(metadata),
          totalVisits    |-> SumVisits(monthlyStats),
          totalDownloads |-> SumDownloads(monthlyStats),
          monthlyStats   |-> monthlyStats,
          firstMonth     |-> FirstMonthOf(monthlyStats),
          lastMonth      |-> LastMonthOf(monthlyStats) ]

\* updateDatasetStats; `existing` is what loadDatasetStats(datasetId) returned
updateDatasetStats(existing, datasetId, newData, metadata) ==
    LET loaded       == IF existing.exists
                        THEN LoadExisting(<< >>, existing.monthlyStats)
                        ELSE << >>
        monthlyMap   == AddUpdates(loaded,
                           SelectSeq(newData, LAMBDA u : u.datasetId = datasetId))
        monthlyStats == SortByMonth(monthlyMap)
    IN  [ exists         |-> TRUE,
          id             |-> datasetId,
          title          |-> metadata.title,
          organization   |-> OrgName(metadata),
          totalVisits    |-> SumVisits(monthlyStats),
          totalDownloads |-> SumDownloads(monthlyStats),
          monthlyStats   |-> monthlyStats,
          firstMonth     |-> FirstMonthOf(monthlyStats),
          lastMonth      |-> LastMonthOf(monthlyStats) ]

-----------------------------------------------------------------------------
(* Aggregates of the full synchronisation (sync-stats.ts)                   *)

\* for (const dataset of allMetrics) for (const [month, stats] of
\* dataset.monthlyStats) monthlyAggregates.set(month, current + stats)
RECURSIVE AggregateMonths(_, _)
AggregateMonths(monthlyAggregates, allMetrics) ==
    IF allMetrics = << >>
    THEN monthlyAggregates
    ELSE AggregateMonths(AddUpdates(monthlyAggregates, Head(allMetrics).monthlyStats),
                         Tail(allMetrics))

RECURSIVE SumTotals(_, _)
SumTotals(allMetrics, field) ==
    IF allMetrics = << >>
    THEN 0
    ELSE Head(allMetrics)[field] + SumTotals(Tail(allMetrics), field)

\* calculateGlobalStats (GlobalStats without lastUpdate)
calculateGlobalStats(allMetrics) ==
    LET monthlyStats == SortByMonth(AggregateMonths(<< >>, allMetrics))
    IN  [ totalVisits    |-> SumTotals(allMetrics, "totalVisits"),
          totalDownloads |-> SumTotals(allMetrics, "totalDownloads"),
          totalDatasets  |-> Len(allMetrics),
          startDate      |-> IF monthlyStats = << >> THEN StatsStart
                             ELSE monthlyStats[1].month,
          monthlyStats   |-> monthlyStats ]

-----------------------------------------------------------------------------
(* Rankings (calculateTopDatasets of sync-stats.ts, recalculateTopDatasets  *)
(* of sync-incremental.ts)                                                  *)

TOP_DATASETS_COUNT == 100

Periods == {"week", "month", "year", "allTime"}
Metrics == {"visits", "downloads"}

\* getStatsForPeriod: the sums over the months with startMonth <= month <= endMonth
RECURSIVE getStatsForPeriod(_, _, _)
getStatsForPeriod(monthlyStats, startMonth, endMonth) ==
    IF monthlyStats = << >>
    THEN [visits |-> 0, downloads |-> 0]
    ELSE LET month == Head(monthlyStats)
             rest  == getStatsForPeriod(Tail(monthlyStats), startMonth, endMonth)
         IN  IF month.month >= startMonth /\ month.month <= endMonth
             THEN [ visits    |-> month.visits + rest.visits,
                    downloads |-> month.downloads + rest.downloads ]
             ELSE rest

\* faulty variant: the all-time window starts a year before the anchor, like the year window
PeriodConfig_AllTimeIsYear(now) ==
    [ week    |-> [ start     |-> getMonthsAgo(now, 0),
                    prevStart |-> getMonthsAgo(now, 1),
                    prevEnd   |-> getMonthsAgo(now, 1) ],
      month   |-> [ start     |-> getMonthsAgo(now, 1),
                    prevStart |-> getMonthsAgo(now, 2),
                    prevEnd   |-> getMonthsAgo(now, 2) ],
      year    |-> [ start     |-> getMonthsAgo(now, 12),
                    prevStart |-> getMonthsAgo(now, 24),
                    prevEnd   |-> getMonthsAgo(now, 13) ],
      allTime |-> [ start     |-> getMonthsAgo(now, 12),
                    prevStart |-> StatsStart,
                    prevEnd   |-> StatsStart ] ]

\* the `periods` object
PeriodConfig(now) ==
    [ week    |-> [ start     |-> getMonthsAgo(now, 0),
                    prevStart |-> getMonthsAgo(now, 1),
                    prevEnd   |-> getMonthsAgo(now, 1) ],
      month   |-> [ start     |-> getMonthsAgo(now, 1),
                    prevStart |-> getMonthsAgo(now, 2),
                    prevEnd   |-> getMonthsAgo(now, 2) ],
      year    |-> [ start     |-> getMonthsAgo(now, 12),
                    prevStart |-> getMonthsAgo(now, 24),
                    prevEnd   |-> getMonthsAgo(now, 13) ],
      allTime |-> [ start     |-> StatsStart,
                    prevStart |-> StatsStart,
                    prevEnd   |-> StatsStart ] ]

\* faulty variant: the change is related to the current value
TrendOf_OverCurrent(value, previousValue) ==
    IF value > 0
    THEN [num |-> (value - previousValue) * 100, den |-> value]
    ELSE [num |-> 0, den |-> 1]

\* previousValue > 0 ? ((value - previousValue) / previousValue) * 100 : 0
\* The quotient is kept exact, as numerator and denominator; the rounding of the
\* IEEE double that holds it is not modelled.
TrendOf(value, previousValue) ==
    IF previousValue > 0
    THEN [num |-> (value - previousValue) * 100, den |-> previousValue]
    ELSE [num |-> 0, den |-> 1]

createRanking(stats, value, previousValue, rank) ==
    [ id            |-> stats.id,
      title         |-> stats.title,
      organization  |-> stats.organization,
      value         |-> value,
      previousValue |-> previousValue,
      trend         |-> TrendOf(value, previousValue),
      rank          |-> rank ]

\* datasetsWithStats of one period: one row per entity, in the order of the input
DatasetsWithStats(entities, period, now) ==
    LET cfg == PeriodConfig(now)[period]
    IN  SubSeq(
          [ i \in 1..Len(entities) |->
              [ stats    |-> entities[i],
                current  |-> getStatsForPeriod(entities[i].monthlyStats, cfg.start,
                                               getCurrentMonth(now)),
                previous |-> IF period # "allTime"
                             THEN getStatsForPeriod(entities[i].monthlyStats,
                                                    cfg.prevStart, cfg.prevEnd)
                             ELSE [visits |-> 0, downloads |-> 0] ] ],
          1, Len(entities))

\* faulty variant: among rows of equal value the later one comes first (an
\* unstable sort)
SortPosition_Unstable(rows, i, metric) ==
    Cardinality({ j \in 1..Len(rows) :
                    rows[j].current[metric] > rows[i].current[metric] })
    + Cardinality({ j \in (i + 1)..Len(rows) :
                      rows[j].current[metric] = rows[i].current[metric] })
    + 1

\* The position row i takes in the sort by
\* (a, b) => b.current[metric] - a.current[metric]: after the rows of greater
\* value and, Array.prototype.sort being stable, after the rows of equal value
\* that precede it in the array.
SortPosition(rows, i, metric) ==
    Cardinality({ j \in 1..Len(rows) :
                    rows[j].current[metric] > rows[i].current[metric] })
    + Cardinality({ j \in 1..(i - 1) :
                      rows[j].current[metric] = rows[i].current[metric] })
    + 1

\* [...datasetsWithStats].sort((a, b) => b.current[metric] - a.current[metric])
SortDesc(rows, metric) ==
    LET n   == Len(rows)
        pos == SubSeq([ i \in 1..n |-> SortPosition(rows, i, metric) ], 1, n)
    IN  SubSeq([ k \in 1..n |-> rows[CHOOSE i \in 1..n : pos[i] = k] ], 1, n)

\* faulty variant: one entry too many is kept
SliceTop_OneMore(rows) ==
    SubSeq(rows, 1, IF Len(rows) < TOP_DATASETS_COUNT + 1 THEN Len(rows)
                    ELSE TOP_DATASETS_COUNT + 1)

\* .slice(0, TOP_DATASETS_COUNT)
SliceTop(rows) ==
    SubSeq(rows, 1, IF Len(rows) < TOP_DATASETS_COUNT THEN Len(rows)
                    ELSE TOP_DATASETS_COUNT)

\* result[period][metric]
RankingList(entities, period, metric, now) ==
    LET top == SliceTop(SortDesc(DatasetsWithStats(entities, period, now), metric))
    IN  SubSeq(
          [ i \in 1..Len(top) |->
              createRanking(top[i].stats, top[i].current[metric],
                            top[i].previous[metric], i) ],
          1, Len(top))

\* recalculateTopDatasets(allDatasetStats); allDatasetStats.values() is the
\* sequence `entities` (TopDatasetsData without lastUpdate)
recalculateTopDatasets(entities, now) ==
    [ period \in Periods |->
        [ metric \in Metrics |-> RankingList(entities, period, metric, now) ] ]

\* metadataMap.get(id): the metadata of id, or NoMetadata
NoMetadata == [exists |-> FALSE]

MetadataGet(metadataMap, id) ==
    IF \E i \in 1..Len(metadataMap) : metadataMap[i].id = id
    THEN metadataMap[CHOOSE i \in 1..Len(metadataMap) : metadataMap[i].id = id]
    ELSE NoMetadata

\* the rows calculateTopDatasets keeps: the metrics whose metadata is known,
\* each with the display fields createRanking reads from the metadata
RankableMetrics(allMetrics, metadataMap) ==
    LET known == SelectSeq(allMetrics,
                   LAMBDA m : MetadataGet(metadataMap, m.datasetId).exists)
    IN  SubSeq(
          [ i \in 1..Len(known) |->
              [ id           |-> known[i].datasetId,
                title        |-> MetadataGet(metadataMap, known[i].datasetId).title,
                organization |-> OrgName(MetadataGet(metadataMap, known[i].datasetId)),
                monthlyStats |-> known[i].monthlyStats ] ],
          1, Len(known))

\* calculateTopDatasets(allMetrics, metadataMap)
calculateTopDatasets(allMetrics, metadataMap, now) ==
    LET rankable == RankableMetrics(allMetrics, metadataMap)
    IN  [ period \in Periods |->
            [ metric \in Metrics |-> RankingList(rankable, period, metric, now) ] ]

-----------------------------------------------------------------------------
(* MonthSpec: getMonthsToFetch applied to every last month and every clock  *)

YearSpan == 3

ModelYears == YearOf(StatsStart) .. (YearOf(StatsStart) + YearSpan)
ModelMonths == { MonthStr(y, m) : y \in ModelYears, m \in 1..12 }
ModelDays == {1, 2, 15, 28, 29, 30, 31}
ModelDates ==
    { [y |-> y, m |-> m, d |-> d] :
        y \in ModelYears, m \in 1..12, d \in ModelDays }

ValidDates == { dt \in ModelDates : dt.d <= DaysInMonth(dt.y, dt.m - 1) }

\* the values of the variables a specification does not use
MsIdle == [months |-> << >>, done |-> FALSE, applied |-> FALSE]
MgIdle == [applied |-> FALSE]
IdleDate == [y |-> YearOf(StatsStart), m |-> MonthNumOf(StatsStart), d |-> 1]
RkIdle == [applied |-> FALSE]
MonthParked == msLast = StatsStart /\ msOut = MsIdle
RankParked == rkStats = << >> /\ rkMeta = << >> /\ rkOut = RkIdle
MergeParked == mgExisting = << >> /\ mgUpdates = << >> /\ mgOut = MgIdle
IxIdle == [applied |-> FALSE, n |-> 0]
IndexParked == ixExisting = NoFile /\ ixNew = << >> /\ ixOut = IxIdle
PgIdle == [applied |-> FALSE]
PageParked == pgPages = << >> /\ pgMax = 0 /\ pgOut = PgIdle
RtIdle == [phase |-> "idle"]
RetryParked == rt = RtIdle /\ rtLog = << >>
DtIdle == [mounted |-> FALSE]
DetailParked == dtId = "" /\ dtState = DtIdle /\ dtLoads = << >>
SqIdle == [mounted |-> FALSE]
SearchParked == sqQuery = << >> /\ sqState = SqIdle /\ sqRequests = << >>
LaterParked == PageParked /\ RetryParked /\ DetailParked /\ SearchParked
RunIdle == [phase |-> "idle"]
NoRun == [kind |-> "none"]
PipeParked ==
    /\ api = {}
    /\ fsGlobal = NoFile
    /\ fsTop = NoFile
    /\ fsIndex = NoFile
    /\ fsDatasets = << >>
    /\ run = RunIdle
    /\ lastRun = NoRun
    /\ runs = 0
    /\ merged = {}

MonthInit ==
    /\ today \in { dt \in ValidDates : dt.d \in {2, 31} }
    /\ msLast \in { mo \in ModelMonths : mo >= StatsStart }
    /\ msOut = MsIdle
    /\ MergeParked
    /\ RankParked
    /\ PipeParked
    /\ IndexParked
    /\ LaterParked

MonthApply ==
    /\ ~msOut.applied
    /\ LET r == getMonthsToFetchRun(msLast, today)
       IN  msOut' = [months |-> r.months, done |-> r.done, applied |-> TRUE]
    /\ UNCHANGED << today, msLast, mergeVars, rankVars, pipeVars, indexVars, laterVars >>

MonthNext == MonthApply

MonthSpec == MonthInit /\ [][MonthNext]_vars

\* Calendar arithmetic on months, independent of the code's Date handling
MonthIndex(month) == YearOf(month) * 12 + (MonthNumOf(month) - 1)
MonthOfIndex(i) == MonthStr(i \div 12, (i % 12) + 1)
PlusMonths(month, n) == MonthOfIndex(MonthIndex(month) + n)
CalendarMonths ==
    { MonthStr(y, m) : y \in YearOf(StatsStart) .. (YearOf(StatsStart) + YearSpan + 2),
                       m \in 1..12 }

\* C4: getMonthsToFetch(last) returns exactly the months m with
\* last < m <= current month, ascending, consecutive, without duplicates;
\* getNextMonth maps YYYY-12 to (YYYY+1)-01 and YYYY-MM to YYYY-(MM+1); the loop
\* terminates (its condition becomes false before the fuel runs out).
C4_MonthsToFetchExact ==
    /\ getNextMonth(msLast) =
          IF MonthNumOf(msLast) = 12
          THEN MonthStr(YearOf(msLast) + 1, 1)
          ELSE MonthStr(YearOf(msLast), MonthNumOf(msLast) + 1)
    /\ msOut.applied =>
          /\ msOut.done
          /\ { msOut.months[i] : i \in 1..Len(msOut.months) } =
                { mo \in CalendarMonths : msLast < mo /\ mo <= getCurrentMonth(today) }
          /\ \A i \in 1..Len(msOut.months) :
                msOut.months[i] = PlusMonths(msLast, i)

\* a run of the loop over several months that crosses a year boundary
C4_Witness ==
    /\ msOut.applied
    /\ Len(msOut.months) >= 3
    /\ YearOf(msOut.months[1]) < YearOf(msOut.months[Len(msOut.months)])
    /\ MonthNumOf(msLast) = 12

-----------------------------------------------------------------------------
(* MergeSpec: a batch of updates merged into an existing series, once and   *)
(* then a second time into the result                                       *)

MaxUpdates == 3

MergeMonths == {202411, 202412, 202501}
MergeIds == {"d1", "d2"}

\* the records an existing series is made of: at most one per month, ascending
ExistingEntries ==
    { [month |-> 202411, visits |-> 3, downloads |-> 1],
      [month |-> 202412, visits |-> 0, downloads |-> 4],
      [month |-> 202412, visits |-> 2, downloads |-> 2],
      [month |-> 202501, visits |-> 5, downloads |-> 0] }

ExistingSeries ==
    { ser \in UNION { [1..n -> ExistingEntries] : n \in 0..3 } :
        \A i \in 1..(Len(ser) - 1) : ser[i].month < ser[i + 1].month }

UpdateKinds ==
    { [datasetId |-> id, month |-> mo, visits |-> v[1], downloads |-> v[2]] :
        id \in MergeIds, mo \in MergeMonths, v \in { <<1, 0>>, <<2, 5>> } }

MergeMetadata == [id |-> "d1", title |-> "Agriculture", organization |-> ""]

GlobalOf(series) ==
    [ totalVisits    |-> SumVisits(series),
      totalDownloads |-> SumDownloads(series),
      totalDatasets  |-> 2,
      startDate      |-> StatsStart,
      monthlyStats   |-> series ]

MergeInit ==
    /\ mgExisting \in ExistingSeries
    /\ mgUpdates = << >>
    /\ mgOut = MgIdle
    /\ today = IdleDate
    /\ MonthParked
    /\ RankParked
    /\ PipeParked
    /\ IndexParked
    /\ LaterParked

\* one more record arrives in the batch
MergeAddUpdate ==
    /\ ~mgOut.applied
    /\ Len(mgUpdates) < MaxUpdates
    /\ \E u \in UpdateKinds : mgUpdates' = Append(mgUpdates, u)
    /\ UNCHANGED << today, mgExisting, mgOut, monthVars, rankVars, pipeVars, indexVars, laterVars >>

\* the batch is merged, and merged again into the result
MergeApply ==
    /\ ~mgOut.applied
    /\ LET once    == mergeMonthlyData(mgExisting, mgUpdates)
           global1 == updateGlobalStats(GlobalOf(mgExisting), mgUpdates, 2)
           file    == [exists |-> TRUE, monthlyStats |-> mgExisting]
       IN  mgOut' = [ applied |-> TRUE,
                      once    |-> once,
                      twice   |-> mergeMonthlyData(once, mgUpdates),
                      global1 |-> global1,
                      global2 |-> updateGlobalStats(global1, mgUpdates, 2),
                      ds      |-> updateDatasetStats(file, "d1", mgUpdates,
                                                     MergeMetadata),
                      dsNew   |-> updateDatasetStats(NoFile, "d1", mgUpdates,
                                                     MergeMetadata),
                      full    |-> fetchDatasetMetricsOfData("d1",
                                     SelectSeq(mgUpdates,
                                               LAMBDA u : u.datasetId = "d1")) ]
    /\ UNCHANGED << today, mgExisting, mgUpdates, monthVars, rankVars, pipeVars, indexVars, laterVars >>

MergeNext == MergeAddUpdate \/ MergeApply

MergeSpec == MergeInit /\ [][MergeNext]_vars

\* the sum of a field over the updates of a month, and the value a series holds
\* for a month (0 when the month is absent), stated without the code's maps
RECURSIVE BatchSum(_, _, _)
BatchSum(updates, month, field) ==
    IF updates = << >>
    THEN 0
    ELSE (IF Head(updates).month = month THEN Head(updates)[field] ELSE 0)
         + BatchSum(Tail(updates), month, field)

SeriesMonths(series) == { series[i].month : i \in 1..Len(series) }

SeriesValue(series, month, field) ==
    IF month \in SeriesMonths(series)
    THEN (CHOOSE e \in { series[i] : i \in 1..Len(series) } : e.month = month)[field]
    ELSE 0

\* result is the additive merge of updates into existing
IsAdditiveMerge(result, existing, updates) ==
    /\ SeriesMonths(result) = SeriesMonths(existing) \cup SeriesMonths(updates)
    /\ Len(result) = Cardinality(SeriesMonths(result))
    /\ \A i \in 1..(Len(result) - 1) : result[i].month < result[i + 1].month
    /\ \A i \in 1..Len(result) : \A field \in {"visits", "downloads"} :
         result[i][field] = SeriesValue(existing, result[i].month, field)
                            + BatchSum(updates, result[i].month, field)

\* C2: mergeMonthlyData(existing, updates) holds, for every month of existing or
\* updates, exactly one record whose visits (downloads) is the existing value (0 if
\* absent) plus the sum over the update records of the month, no other month, in
\* ascending order; updateDatasetStats does the same with the updates of its id.
C2_MergeIsAdditive ==
    mgOut.applied =>
      LET own == SelectSeq(mgUpdates, LAMBDA u : u.datasetId = "d1")
      IN  /\ IsAdditiveMerge(mgOut.once, mgExisting, mgUpdates)
          /\ IsAdditiveMerge(mgOut.ds.monthlyStats, mgExisting, own)
          /\ IsAdditiveMerge(mgOut.dsNew.monthlyStats, << >>, own)

\* a batch with two records of one month that the series already holds, one for
\* each dataset, and a record of a month the series does not hold
C2_Witness ==
    /\ mgOut.applied
    /\ \E i, j \in 1..Len(mgUpdates) :
         /\ i < j
         /\ mgUpdates[i].month = mgUpdates[j].month
         /\ mgUpdates[i].datasetId # mgUpdates[j].datasetId
         /\ mgUpdates[i].month \in SeriesMonths(mgExisting)
    /\ \E i \in 1..Len(mgUpdates) : mgUpdates[i].month \notin SeriesMonths(mgExisting)
    /\ Len(mgOut.ds.monthlyStats) < Len(mgOut.once)

\* the batch holds only months after every month of the series
StrictlyNew(existing, updates) ==
    \A i \in 1..Len(existing) : \A j \in 1..Len(updates) :
        existing[i].month < updates[j].month

\* C3: merging a batch of strictly-new months once yields, for each of those
\* months, the sum of the input records; merging the same batch a second time
\* doubles the value of each month of the batch and raises the recomputed totals
\* by the batch sum again; the other months keep their values.
C3_RemergeDoubles ==
    (mgOut.applied /\ StrictlyNew(mgExisting, mgUpdates)) =>
      /\ \A mo \in SeriesMonths(mgUpdates) : \A field \in {"visits", "downloads"} :
           /\ SeriesValue(mgOut.once, mo, field) = BatchSum(mgUpdates, mo, field)
           /\ SeriesValue(mgOut.twice, mo, field)
                = 2 * SeriesValue(mgOut.once, mo, field)
      /\ \A mo \in SeriesMonths(mgExisting) : \A field \in {"visits", "downloads"} :
           /\ SeriesValue(mgOut.twice, mo, field) = SeriesValue(mgExisting, mo, field)
           /\ SeriesValue(mgOut.once, mo, field) = SeriesValue(mgExisting, mo, field)
      /\ SeriesMonths(mgOut.twice) = SeriesMonths(mgOut.once)
      /\ mgOut.global1.totalVisits
           = SumVisits(mgExisting) + SumVisits(mgUpdates)
      /\ mgOut.global1.totalDownloads
           = SumDownloads(mgExisting) + SumDownloads(mgUpdates)
      /\ mgOut.global2.totalVisits
           = mgOut.global1.totalVisits + SumVisits(mgUpdates)
      /\ mgOut.global2.totalDownloads
           = mgOut.global1.totalDownloads + SumDownloads(mgUpdates)
      /\ mgOut.global2.monthlyStats = mgOut.twice

\* a non-empty series and a batch of strictly-new months with two records of one
\* month, merged twice
C3_Witness ==
    /\ mgOut.applied
    /\ mgExisting # << >>
    /\ StrictlyNew(mgExisting, mgUpdates)
    /\ \E i, j \in 1..Len(mgUpdates) : i < j /\ mgUpdates[i].month = mgUpdates[j].month
    /\ \E mo \in SeriesMonths(mgUpdates) :
         SeriesValue(mgOut.twice, mo, "visits") > SeriesValue(mgOut.once, mo, "visits")

-----------------------------------------------------------------------------
(* RankSpec: the rankings of a small collection of datasets whose series    *)
(* are built record by record                                               *)

MaxRecords == 3

RankIds == << "d1", "d2", "d3" >>

RankTitles == << "Agriculture", "Transport", "Budget" >>

\* d1 has no activity in any month; d3 was deleted upstream: the full
\* synchronisation finds no metadata for it
RankMetadata ==
    << [exists |-> TRUE, id |-> "d1", title |-> "Agriculture", organization |-> "INSEE"],
       [exists |-> TRUE, id |-> "d2", title |-> "Transport", organization |-> ""] >>

RankDates ==
    { [y |-> 2024, m |-> 3, d |-> 2],  [y |-> 2024, m |-> 3, d |-> 31],
      [y |-> 2025, m |-> 1, d |-> 2],  [y |-> 2025, m |-> 1, d |-> 31] }

\* the months a record may be of: the anchor and 1, 2, 12, 13, 24 months before
RankOffsets == {0, 1, 2, 12, 13, 24}
RankMonths(now) ==
    { mo \in { PlusMonths(getCurrentMonth(now), 0 - k) : k \in RankOffsets } :
        mo >= StatsStart }

RankValues == { <<10, 0>>, <<20, 200>>, <<30, 300>> }

\* DatasetMetrics of a DatasetStats record
MetricsOfStats(stats) ==
    [ datasetId      |-> stats.id,
      monthlyStats   |-> stats.monthlyStats,
      totalVisits    |-> stats.totalVisits,
      totalDownloads |-> stats.totalDownloads ]

RankInit ==
    /\ today \in RankDates
    /\ rkStats = [ i \in 1..Len(RankIds) |->
                     updateDatasetStats(NoFile, RankIds[i], << >>,
                        [id |-> RankIds[i], title |-> RankTitles[i],
                         organization |-> ""]) ]
    /\ rkMeta = RankMetadata
    /\ rkOut = RkIdle
    /\ MonthParked
    /\ MergeParked
    /\ PipeParked
    /\ IndexParked
    /\ LaterParked

RECURSIVE RecordCount(_)
RecordCount(allStats) ==
    IF allStats = << >>
    THEN 0
    ELSE Len(Head(allStats).monthlyStats) + RecordCount(Tail(allStats))

\* a dataset receives the record of one more month
RankAddRecord ==
    /\ ~rkOut.applied
    /\ RecordCount(rkStats) < MaxRecords
    /\ \E i \in 2..Len(rkStats), mo \in RankMonths(today), v \in RankValues :
         /\ mo \notin SeriesMonths(rkStats[i].monthlyStats)
         /\ rkStats' = [ rkStats EXCEPT ![i] =
                           updateDatasetStats(rkStats[i], rkStats[i].id,
                              << [datasetId |-> rkStats[i].id, month |-> mo,
                                  visits |-> v[1], downloads |-> v[2]] >>,
                              [id |-> rkStats[i].id, title |-> rkStats[i].title,
                               organization |-> rkStats[i].organization]) ]
    /\ UNCHANGED << today, rkMeta, rkOut, monthVars, mergeVars, pipeVars, indexVars, laterVars >>

\* both scripts compute their rankings of the collection
RankApply ==
    /\ ~rkOut.applied
    /\ rkOut' = [ applied |-> TRUE,
                  incr    |-> recalculateTopDatasets(rkStats, today),
                  full    |-> calculateTopDatasets(
                                [ i \in 1..Len(rkStats) |-> MetricsOfStats(rkStats[i]) ],
                                rkMeta, today) ]
    /\ UNCHANGED << today, rkStats, rkMeta, monthVars, mergeVars, pipeVars, indexVars, laterVars >>

RankNext == RankAddRecord \/ RankApply

RankSpec == RankInit /\ [][RankNext]_vars

\* the collection each script ranks, in the order it iterates over it
RankInput(script) ==
    IF script = "incr"
    THEN rkStats
    ELSE SelectSeq(rkStats, LAMBDA st : MetadataGet(rkMeta, st.id).exists)

RankScripts == {"incr", "full"}

InputIndexOf(script, id) ==
    CHOOSE i \in 1..Len(RankInput(script)) : RankInput(script)[i].id = id

SeriesOf(script, id) == RankInput(script)[InputIndexOf(script, id)].monthlyStats

\* the sum of a field over the months lo..hi of a series, by the calendar
RECURSIVE SumOverMonths(_, _, _)
SumOverMonths(series, months, field) ==
    IF months = {}
    THEN 0
    ELSE LET mo == CHOOSE x \in months : TRUE
         IN  SeriesValue(series, mo, field) + SumOverMonths(series, months \ {mo}, field)

WindowSum(series, lo, hi, field) ==
    SumOverMonths(series, { mo \in SeriesMonths(series) : lo <= mo /\ mo <= hi }, field)

Anchor == getCurrentMonth(today)

\* the windows of the table of section 4.2, as month offsets before the anchor
WindowOffsets ==
    [ week  |-> [start |-> 0,  prevStart |-> 1,  prevEnd |-> 1],
      month |-> [start |-> 1,  prevStart |-> 2,  prevEnd |-> 2],
      year  |-> [start |-> 12, prevStart |-> 24, prevEnd |-> 13] ]

WindowsAsSpecified(script, period, metric) ==
    LET list == rkOut[script][period][metric]
        w    == WindowOffsets[period]
    IN  \A i \in 1..Len(list) :
          /\ list[i].value =
               WindowSum(SeriesOf(script, list[i].id),
                         PlusMonths(Anchor, 0 - w.start), Anchor, metric)
          /\ list[i].previousValue =
               WindowSum(SeriesOf(script, list[i].id),
                         PlusMonths(Anchor, 0 - w.prevStart),
                         PlusMonths(Anchor, 0 - w.prevEnd), metric)

\* C6: for every entry of a ranking list and anchor month A, value is the sum of
\* the metric over [A, A] (week), [A-1, A] (month), [A-12, A] (year) and
\* previousValue the sum over [A-1, A-1], [A-2, A-2], [A-24, A-13].
C6_WindowSums ==
    rkOut.applied =>
      \A script \in RankScripts, period \in {"week", "month", "year"},
         metric \in Metrics :
           WindowsAsSpecified(script, period, metric)

\* The windows are the specified ones on the days of the month that every month
\* has: there setMonth keeps the day and moves the month only.
C6_WindowSumsUntilDay28 ==
    (rkOut.applied /\ today.d <= 28) => C6_WindowSums

\* The worked example: visits {2024-01: 10, 2024-02: 20, 2024-03: 30} on
\* 2024-03-02 give year value 60, month value 50, previousValue 10, trend 400.
ExampleSeries ==
    << [month |-> 202401, visits |-> 10, downloads |-> 0],
       [month |-> 202402, visits |-> 20, downloads |-> 200],
       [month |-> 202403, visits |-> 30, downloads |-> 300] >>

IsExampleState ==
    /\ rkOut.applied
    /\ today = [y |-> 2024, m |-> 3, d |-> 2]
    /\ rkStats[2].monthlyStats = ExampleSeries

C6_WorkedExample ==
    IsExampleState =>
      \E i \in 1..Len(rkOut.incr.year.visits), j \in 1..Len(rkOut.incr.month.visits) :
        /\ rkOut.incr.year.visits[i].id = "d2"
        /\ rkOut.incr.year.visits[i].value = 60
        /\ rkOut.incr.month.visits[j].id = "d2"
        /\ rkOut.incr.month.visits[j].value = 50
        /\ rkOut.incr.month.visits[j].previousValue = 10
        /\ rkOut.incr.month.visits[j].trend.num = 400 * rkOut.incr.month.visits[j].trend.den

\* C7: in the allTime period every entry's value is the sum of the entity's metric
\* over the months from the global series' start month through the anchor, which is
\* the entity's whole series up to the anchor; previousValue and trend are 0.
C7_AllTimeIsWholeSeries ==
    rkOut.applied =>
      \A script \in RankScripts, metric \in Metrics :
        LET list == rkOut[script].allTime[metric]
            globalStart ==
              calculateGlobalStats(
                [ k \in 1..Len(rkStats) |-> MetricsOfStats(rkStats[k]) ]).startDate
        IN  \A i \in 1..Len(list) :
              /\ list[i].value =
                   WindowSum(SeriesOf(script, list[i].id), globalStart, Anchor, metric)
              /\ list[i].value =
                   WindowSum(SeriesOf(script, list[i].id), 0, Anchor, metric)
              /\ list[i].previousValue = 0
              /\ list[i].trend.num = 0

\* an entry whose all-time value counts a month that lies before the year window
C7_Witness ==
    /\ rkOut.applied
    /\ \E i \in 1..Len(rkOut.full.allTime.visits), j \in 1..Len(rkOut.full.year.visits) :
         /\ rkOut.full.allTime.visits[i].id = rkOut.full.year.visits[j].id
         /\ rkOut.full.allTime.visits[i].value > rkOut.full.year.visits[j].value
         /\ rkOut.full.year.visits[j].value > 0
         /\ rkOut.full.year.visits[j].previousValue > 0

AllRankingLists == RankScripts \X Periods \X Metrics

\* C8: every ranking list is non-increasing in value; two entities of equal value
\* appear in the order of the input collection; the entities of value 0 come after
\* all the entities of positive value.
C8_SortedStable ==
    rkOut.applied =>
      \A l \in AllRankingLists :
        LET list == rkOut[l[1]][l[2]][l[3]]
        IN  \A i, j \in 1..Len(list) :
              i < j =>
                /\ list[i].value >= list[j].value
                /\ list[i].value = list[j].value =>
                     InputIndexOf(l[1], list[i].id) < InputIndexOf(l[1], list[j].id)
                /\ list[i].value = 0 => list[j].value = 0

\* a list where the inactive first dataset of the input comes last, after two
\* datasets of equal positive value that kept their input order
C8_Witness ==
    /\ rkOut.applied
    /\ Len(rkOut.incr.week.visits) = 3
    /\ rkOut.incr.week.visits[1].id = "d2"
    /\ rkOut.incr.week.visits[2].id = "d3"
    /\ rkOut.incr.week.visits[3].id = "d1"
    /\ rkOut.incr.week.visits[1].value = rkOut.incr.week.visits[2].value
    /\ rkOut.incr.week.visits[1].value > 0
    /\ rkOut.incr.month.visits[1].id = "d3"

-----------------------------------------------------------------------------
(* RankBigSpec: the rankings of collections of about TOP_DATASETS_COUNT     *)
(* datasets, where the truncation of the lists happens                      *)

BigExtra == 30
BigPatterns == 8

BigSizes ==
    { 0, 1, TOP_DATASETS_COUNT - 1, TOP_DATASETS_COUNT, TOP_DATASETS_COUNT + 1,
      TOP_DATASETS_COUNT + BigExtra }

BigDates == { [y |-> 2025, m |-> 1, d |-> 2], [y |-> 2024, m |-> 3, d |-> 31] }

BigId(i) == "d" \o ToString(i)

\* the statistics of dataset i under pattern p: a record for the month before the
\* anchor and one for the anchor, with many equal values among the datasets
BigStats(i, p, now) ==
    updateDatasetStats(NoFile, BigId(i),
        << [ datasetId |-> BigId(i), month |-> PlusMonths(getCurrentMonth(now), 0 - 1),
             visits |-> (i * p) % 7, downloads |-> i % 3 ],
           [ datasetId |-> BigId(i), month |-> getCurrentMonth(now),
             visits |-> (i * p) % 5, downloads |-> (i + p) % 4 ] >>,
        [id |-> BigId(i), title |-> BigId(i), organization |-> ""])

\* every tenth dataset was deleted upstream and has no metadata
BigMetadata(n) ==
    LET ids == SelectSeq([ i \in 1..n |-> i ], LAMBDA i : i % 10 # 0)
    IN  [ k \in 1..Len(ids) |->
            [ exists |-> TRUE, id |-> BigId(ids[k]), title |-> BigId(ids[k]),
              organization |-> "" ] ]

RankBigInit ==
    /\ today \in BigDates
    /\ \E n \in BigSizes, p \in 1..BigPatterns :
         /\ rkStats = [ i \in 1..n |-> BigStats(i, p, today) ]
         /\ rkMeta = BigMetadata(n)
    /\ rkOut = RkIdle
    /\ MonthParked
    /\ MergeParked
    /\ PipeParked
    /\ IndexParked
    /\ LaterParked

RankBigNext == RankApply

RankBigSpec == RankBigInit /\ [][RankBigNext]_vars

MinOf(a, b) == IF a < b THEN a ELSE b

\* C9: every ranking list has length min(100, number of rankable entities), holds
\* each entity id at most once, its entry at position i has rank i, and no entity
\* left out of the list has a value greater than an entity of the list.
C9_TopLists ==
    rkOut.applied =>
      \A l \in AllRankingLists :
        LET list  == rkOut[l[1]][l[2]][l[3]]
            input == RankInput(l[1])
            rows  == DatasetsWithStats(input, l[2], today)
            kept  == { list[i].id : i \in 1..Len(list) }
        IN  /\ Len(list) = MinOf(100, Len(input))
            /\ Cardinality(kept) = Len(list)
            /\ \A i \in 1..Len(list) : list[i].rank = i
            /\ \A k \in 1..Len(rows) :
                 rows[k].stats.id \notin kept =>
                   \A i \in 1..Len(list) : rows[k].current[l[3]] <= list[i].value

\* more than 100 rankable datasets in both scripts: lists of 100 entries that
\* leave out a dataset with a positive value
C9_Witness ==
    /\ rkOut.applied
    /\ Len(rkStats) > 100
    /\ Len(rkMeta) > 100
    /\ Len(rkOut.incr.week.visits) = 100
    /\ Len(rkOut.full.allTime.downloads) = 100
    /\ \E k \in 1..Len(rkStats) :
         /\ \A i \in 1..100 : rkOut.incr.week.visits[i].id # rkStats[k].id
         /\ getStatsForPeriod(rkStats[k].monthlyStats, Anchor, Anchor).visits > 0

-----------------------------------------------------------------------------
(* Spec: the two scripts run against the metric API and the files of       *)
(* public/data                                                             *)

MaxApiRecords == 2

\* the runs of a behaviour: a stale dataset file can be merged into again and
\* again, so the values of the files are not bounded by the API's
MaxRuns == 3

PipeIds == << "d1", "d2", "d3" >>

\* the clock of the runs: a run in November, one on the last day of December,
\* one in January
PipeDates ==
    << [y |-> 2024, m |-> 11, d |-> 15], [y |-> 2024, m |-> 12, d |-> 31],
       [y |-> 2025, m |-> 1, d |-> 15] >>

PipeMonths == << 202411, 202412, 202501 >>

\* what https://www.data.gouv.fr/api/1/datasets/<id>/ answers for the datasets
\* that still exist; d3 was deleted and its lookup fails
PipeUpstream ==
    << [exists |-> TRUE, id |-> "d1", title |-> "Transport", organization |-> "INSEE"],
       [exists |-> TRUE, id |-> "d2", title |-> "Élection", organization |-> ""] >>

UpstreamIds == { PipeUpstream[i].id : i \in 1..Len(PipeUpstream) }

\* The record the metric API holds for dataset i and month k.  The visits are
\* distinct powers of two, so that a sum of visits tells which records it
\* counts; d1 has no download count (monthly_download_resource is null).
ApiRecord(i, k) ==
    [ dataset_id                |-> PipeIds[i],
      metric_month              |-> PipeMonths[k],
      monthly_visit             |-> 2 ^ (Len(PipeMonths) * (i - 1) + (k - 1)),
      monthly_download_resource |-> IF i = 1 THEN 0 ELSE 10 * k + i ]

\* every record the API may come to serve, in the order of its pages
ApiSlots ==
    [ s \in 1..(Len(PipeIds) * Len(PipeMonths)) |->
        ApiRecord(((s - 1) \div Len(PipeMonths)) + 1, ((s - 1) % Len(PipeMonths)) + 1) ]

ApiRecords == { ApiSlots[s] : s \in 1..Len(ApiSlots) }

\* response.data over all the pages of a query
ApiData(records) == SelectSeq(ApiSlots, LAMBDA r : r \in records)

\* the elements of a sequence
Range(seq) == { seq[i] : i \in 1..Len(seq) }

\* set.add(id) for each id: a JavaScript Set keeps the order of first insertion
RECURSIVE SetAddAll(_, _)
SetAddAll(set, ids) ==
    IF ids = << >>
    THEN set
    ELSE SetAddAll(IF Head(ids) \in Range(set) THEN set ELSE Append(set, Head(ids)),
                   Tail(ids))

\* the entries of the metric API as { month, visits, downloads }
\* (entry.monthly_visit || 0, entry.monthly_download_resource || 0)
EntriesOf(data) ==
    SubSeq(
      [ i \in 1..Len(data) |->
          [ datasetId |-> data[i].dataset_id,
            month     |-> data[i].metric_month,
            visits    |-> data[i].monthly_visit,
            downloads |-> data[i].monthly_download_resource ] ],
      1, Len(data))

\* fetchAllDatasetIds without --test: the distinct dataset ids of all pages
fetchAllDatasetIds(records) ==
    SetAddAll(<< >>, SubSeq([ i \in 1..Len(ApiData(records)) |->
                                ApiData(records)[i].dataset_id ],
                            1, Len(ApiData(records))))

\* fetchDatasetMetrics: monthlyStats.set(entry.metric_month, ...) per entry
fetchDatasetMetrics(records, datasetId) ==
    LET data == ApiData({ r \in records : r.dataset_id = datasetId })
    IN  fetchDatasetMetricsOfData(datasetId, EntriesOf(data))

\* fetchDatasetMetadata: the dataset, or null when the request failed;
\* `resolved` is the set of ids whose request succeeds
fetchDatasetMetadata(datasetId, resolved) ==
    IF datasetId \in resolved /\ datasetId \in UpstreamIds
    THEN MetadataGet(PipeUpstream, datasetId)
    ELSE NoMetadata

\* faulty variant: the entries of every month are returned
fetchNewMonthData_AllMonths(records, month) == EntriesOf(ApiData(records))

\* fetchNewMonthData: the entries of one month
fetchNewMonthData(records, month) ==
    EntriesOf(ApiData({ r \in records : r.metric_month = month }))

\* A character of a title: its base letter (1 for a ... 26 for z), whether it
\* bears an acute accent and whether it is a capital.
Chr(base, accent, upper) == [base |-> base, accent |-> accent, upper |-> upper]

\* lower-case letters without accent
Low(bases) == SubSeq([ i \in 1..Len(bases) |-> Chr(bases[i], 0, 0) ], 1, Len(bases))

\* the characters of the titles of the model
TitleChars(title) ==
    CASE title = "Agriculture" ->
           << Chr(1, 0, 1) >> \o Low(<< 7, 18, 9, 3, 21, 12, 20, 21, 18, 5 >>)
      [] title = "Élection" ->
           << Chr(5, 1, 1) >> \o Low(<< 12, 5, 3, 20, 9, 15, 14 >>)
      [] title = "Energie" ->
           << Chr(5, 0, 1) >> \o Low(<< 14, 5, 18, 7, 9, 5 >>)
      [] title = "Énergie" ->
           << Chr(5, 1, 1) >> \o Low(<< 14, 5, 18, 7, 9, 5 >>)
      [] title = "Transport" ->
           << Chr(20, 0, 1) >> \o Low(<< 18, 1, 14, 19, 16, 15, 18, 20 >>)

\* the comparison of two sequences of numbers, element by element: -1, 0 or 1
RECURSIVE LexCompare(_, _)
LexCompare(a, b) ==
    IF a = << >> /\ b = << >> THEN 0
    ELSE IF a = << >> THEN 0 - 1
    ELSE IF b = << >> THEN 1
    ELSE IF Head(a) < Head(b) THEN 0 - 1
    ELSE IF Head(a) > Head(b) THEN 1
    ELSE LexCompare(Tail(a), Tail(b))

\* one attribute of the characters of a title
Level(title, field) ==
    SubSeq([ i \in 1..Len(TitleChars(title)) |-> TitleChars(title)[i][field] ],
           1, Len(TitleChars(title)))

\* the UTF-16 code unit of a character (A is 65, a is 97, É is 201, é is 233)
CodeUnit(c) ==
    IF c.accent = 1
    THEN (IF c.upper = 1 THEN 201 ELSE 233) + (c.base - 5)
    ELSE (IF c.upper = 1 THEN 64 ELSE 96) + c.base

\* faulty variant: the titles are compared by their code units
localeCompare_CodeUnits(a, b) ==
    LexCompare(
      SubSeq([ i \in 1..Len(TitleChars(a)) |-> CodeUnit(TitleChars(a)[i]) ],
             1, Len(TitleChars(a))),
      SubSeq([ i \in 1..Len(TitleChars(b)) |-> CodeUnit(TitleChars(b)[i]) ],
             1, Len(TitleChars(b))))

\* a.localeCompare(b, 'fr'): the collation of the French locale compares the
\* base letters first, then the accents (a letter without accent before the
\* accented one), then the case (the small letter before the capital)
localeCompare(a, b) ==
    IF LexCompare(Level(a, "base"), Level(b, "base")) # 0
    THEN LexCompare(Level(a, "base"), Level(b, "base"))
    ELSE IF LexCompare(Level(a, "accent"), Level(b, "accent")) # 0
    THEN LexCompare(Level(a, "accent"), Level(b, "accent"))
    ELSE LexCompare(Level(a, "upper"), Level(b, "upper"))

\* insertion of an entry into a list sorted by title; an entry of equal title
\* goes after the ones already there (Array.prototype.sort is stable)
RECURSIVE InsertByTitle(_, _)
InsertByTitle(sorted, entry) ==
    IF sorted = << >>
    THEN << entry >>
    ELSE IF localeCompare(Head(sorted).title, entry.title) <= 0
         THEN << Head(sorted) >> \o InsertByTitle(Tail(sorted), entry)
         ELSE << entry >> \o sorted

\* datasets.sort((a, b) => a.title.localeCompare(b.title, 'fr'))
RECURSIVE SortByTitleFrom(_, _)
SortByTitleFrom(sorted, entries) ==
    IF entries = << >>
    THEN sorted
    ELSE SortByTitleFrom(InsertByTitle(sorted, Head(entries)), Tail(entries))

\* DatasetSummary of a metadata record
SummaryOf(metadata) ==
    [ id           |-> metadata.id,
      title        |-> metadata.title,
      organization |-> OrgName(metadata) ]

\* createDatasetsIndex (DatasetsIndex without lastUpdate)
createDatasetsIndex(metadataMap) ==
    SortByTitleFrom(<< >>,
        SubSeq([ i \in 1..Len(metadataMap) |-> SummaryOf(metadataMap[i]) ],
               1, Len(metadataMap)))

\* datasetsMap.set(id, summary)
IndexSet(datasetsMap, summary) ==
    IF \E i \in 1..Len(datasetsMap) : datasetsMap[i].id = summary.id
    THEN [ datasetsMap EXCEPT
             ![CHOOSE i \in 1..Len(datasetsMap) : datasetsMap[i].id = summary.id]
                 = summary ]
    ELSE Append(datasetsMap, summary)

RECURSIVE IndexSetAll(_, _)
IndexSetAll(datasetsMap, summaries) ==
    IF summaries = << >>
    THEN datasetsMap
    ELSE IndexSetAll(IndexSet(datasetsMap, Head(summaries)), Tail(summaries))

\* updateDatasetsIndex; `existing` is the datasets-index.json file or NoFile
updateDatasetsIndex(existing, newMetadata) ==
    LET loaded == IF existing.exists THEN IndexSetAll(<< >>, existing.data) ELSE << >>
        added  == IndexSetAll(loaded,
                     SubSeq([ i \in 1..Len(newMetadata) |-> SummaryOf(newMetadata[i]) ],
                            1, Len(newMetadata)))
    IN  SortByTitleFrom(<< >>, added)

\* createDatasetStats
createDatasetStats(metrics, metadata) ==
    LET monthlyStats == SortByMonth(metrics.monthlyStats)
    IN  [ exists         |-> TRUE,
          id             |-> metrics.datasetId,
          title          |-> metadata.title,
          organization   |-> OrgName(metadata),
          totalVisits    |-> metrics.totalVisits,
          totalDownloads |-> metrics.totalDownloads,
          monthlyStats   |-> monthlyStats,
          firstMonth     |-> FirstMonthOf(monthlyStats),
          lastMonth      |-> LastMonthOf(monthlyStats) ]

\* a JSON file that exists and holds `data`
FileOf(data) == [exists |-> TRUE, data |-> data]

\* (faulty variant: the file is written under --dry-run too)
writeJsonFile_Always(file, data, dryRun) == data

\* writeJsonFile: under --dry-run the file keeps what it held
writeJsonFile(file, data, dryRun) == IF dryRun THEN file ELSE data

\* sequence.map(f) for the f given as a function on indices
MetricsOfIds(records, ids) ==
    SubSeq([ i \in 1..Len(ids) |-> fetchDatasetMetrics(records, ids[i]) ], 1, Len(ids))

\* metadataMap of the full synchronisation: the metadata found, in the order of
\* allMetrics
MetadataOfMetrics(allMetrics, resolved) ==
    SelectSeq(
      SubSeq([ i \in 1..Len(allMetrics) |->
                 fetchDatasetMetadata(allMetrics[i].datasetId, resolved) ],
             1, Len(allMetrics)),
      LAMBDA metadata : metadata.exists)

\* topDatasetIds: the ids of the entries of the eight lists
TopDatasetIds(topDatasets) ==
    UNION { { topDatasets[period][metric][i].id :
                i \in 1..Len(topDatasets[period][metric]) } :
            period \in Periods, metric \in Metrics }

\* allMetrics.find(m => m.datasetId === datasetId)
MetricsFind(allMetrics, datasetId) ==
    IF \E i \in 1..Len(allMetrics) : allMetrics[i].datasetId = datasetId
    THEN [ found   |-> TRUE,
           metrics |-> allMetrics[CHOOSE i \in 1..Len(allMetrics) :
                                    allMetrics[i].datasetId = datasetId] ]
    ELSE [ found |-> FALSE ]

\* the requests that may fail in a run: the metrics of at most one dataset
FailingSets == { {} } \cup { { PipeIds[i] } : i \in 1..Len(PipeIds) }

\* main of sync-stats.ts.  network = "down": the first request fails three
\* times and main().catch exits with status 1.  `failing`: the datasets whose
\* metrics request fails (caught per dataset, the dataset is skipped).
\* `resolved`: the datasets whose metadata request succeeds.  (Both are sets
\* of datasets the run asks for.)
FullSync ==
    /\ run.phase = "idle"
    /\ runs < MaxRuns
    /\ runs' = runs + 1
    /\ \E dryRun \in BOOLEAN, network \in {"up", "down"},
          failing \in FailingSets, resolved \in SUBSET UpstreamIds :
         IF network = "down"
         THEN /\ failing = {}
              /\ resolved = {}
              /\ lastRun' = [kind |-> "full", outcome |-> "error", dryRun |-> dryRun]
              /\ UNCHANGED << fileVars, merged >>
         ELSE LET datasetIds    == fetchAllDatasetIds(api)
                  allMetrics    == MetricsOfIds(api,
                                      SelectSeq(datasetIds, LAMBDA id : id \notin failing))
                  metadataMap   == MetadataOfMetrics(allMetrics, resolved)
                  globalStats   == calculateGlobalStats(allMetrics)
                  topDatasets   == calculateTopDatasets(allMetrics, metadataMap, today)
                  datasetsIndex == createDatasetsIndex(metadataMap)
                  topDatasetIds == TopDatasetIds(topDatasets)
              IN  /\ failing \cup resolved \subseteq Range(datasetIds)
                  /\ fsGlobal' = writeJsonFile(fsGlobal, FileOf(globalStats), dryRun)
                  /\ fsTop' = writeJsonFile(fsTop, FileOf(topDatasets), dryRun)
                  /\ fsIndex' = writeJsonFile(fsIndex, FileOf(datasetsIndex), dryRun)
                  /\ fsDatasets' =
                       [ id \in DOMAIN fsDatasets |->
                           IF /\ id \in topDatasetIds
                              /\ MetricsFind(allMetrics, id).found
                              /\ MetadataGet(metadataMap, id).exists
                           THEN writeJsonFile(fsDatasets[id],
                                   createDatasetStats(MetricsFind(allMetrics, id).metrics,
                                                      MetadataGet(metadataMap, id)),
                                   dryRun)
                           ELSE fsDatasets[id] ]
                  /\ lastRun' = [kind |-> "full", outcome |-> "ok", dryRun |-> dryRun]
                  /\ merged' = IF dryRun THEN merged ELSE {}
    /\ UNCHANGED << today, api, run, monthVars, mergeVars, rankVars, indexVars, laterVars >>

\* what an incremental run that ended reports
IncrementalOutcome(outcome, dryRun, parses, lastMonth, now, months, requests, writes, changed) ==
    [ kind          |-> "incremental",
      outcome       |-> outcome,
      dryRun        |-> dryRun,
      parses        |-> parses,
      lastMonth     |-> lastMonth,
      currentMonth  |-> getCurrentMonth(now),
      monthsToFetch |-> months,
      requests      |-> requests,
      writes        |-> writes,
      changed       |-> changed ]

\* for (const month of monthsToFetch) allUpdates.push(...fetchNewMonthData(month))
RECURSIVE FetchMonths(_, _)
FetchMonths(records, monthsToFetch) ==
    IF monthsToFetch = << >>
    THEN << >>
    ELSE fetchNewMonthData(records, Head(monthsToFetch))
         \o FetchMonths(records, Tail(monthsToFetch))

\* the dataset ids of a list of updates, in order
IdsOfUpdates(allUpdates) ==
    SubSeq([ i \in 1..Len(allUpdates) |-> allUpdates[i].datasetId ], 1, Len(allUpdates))

\* the ids of datasets-index.json (existingDatasetIds)
IdsOfIndex(datasetsIndex) ==
    IF datasetsIndex.exists
    THEN SetAddAll(<< >>, SubSeq([ i \in 1..Len(datasetsIndex.data) |->
                                     datasetsIndex.data[i].id ],
                                 1, Len(datasetsIndex.data)))
    ELSE << >>

\* fetchMissingMetadata: the metadata found for the ids the index does not hold
fetchMissingMetadata(newDatasetIds, existingIds, resolved) ==
    LET missingIds == SelectSeq(newDatasetIds, LAMBDA id : id \notin Range(existingIds))
    IN  SelectSeq(
          SubSeq([ i \in 1..Len(missingIds) |->
                     fetchDatasetMetadata(missingIds[i], resolved) ],
                 1, Len(missingIds)),
          LAMBDA metadata : metadata.exists)

\* main of sync-incremental.ts, steps 1 to 6: the existing data are loaded, the
\* new months fetched, the new global statistics and index computed.  No file
\* is written in these steps.  It ends the run when global-stats.json is
\* missing or is not JSON (`parses`; exit 1), when the last month is undefined
\* (getNextMonth throws, exit 1), when no month is to be fetched (return) or
\* when a request of the metric API fails (exit 1).
IncrementalStart ==
    /\ run.phase = "idle"
    /\ runs < MaxRuns
    /\ runs' = runs + 1
    /\ \E dryRun \in BOOLEAN, network \in {"up", "down"},
          resolved \in SUBSET UpstreamIds,
          parses \in (IF fsGlobal.exists THEN BOOLEAN ELSE {TRUE}) :
         LET globalStats         == readJsonFile(fsGlobal, parses)
             existingDatasetIds  == IdsOfIndex(fsIndex)
             lastMonth           == IF globalStats.exists
                                    THEN LastMonthOf(globalStats.data.monthlyStats)
                                    ELSE 0
             monthsToFetch       == IF lastMonth = 0 THEN << >>
                                    ELSE getMonthsToFetch(lastMonth, today)
             allUpdates          == FetchMonths(api, monthsToFetch)
             knownDatasetIds     == SetAddAll(existingDatasetIds, IdsOfUpdates(allUpdates))
             newDatasetIds       == SelectSeq(knownDatasetIds,
                                       LAMBDA id : id \notin Range(existingDatasetIds))
             newMetadata         == fetchMissingMetadata(newDatasetIds,
                                       existingDatasetIds, resolved)
             ended(outcome, months, requests) ==
                 /\ lastRun' = IncrementalOutcome(outcome, dryRun, parses, lastMonth, today,
                                                  months, requests, 0, FALSE)
                 /\ UNCHANGED run
         IN  IF ~globalStats.exists \/ lastMonth = 0
             THEN ended("error", << >>, 0)
             ELSE IF monthsToFetch = << >>
             THEN ended("noop", monthsToFetch, 0)
             ELSE IF network = "down"
             THEN ended("error", monthsToFetch, 1)
             ELSE /\ run' =
                       [ phase              |-> "datasets",
                         dryRun             |-> dryRun,
                         parses             |-> parses,
                         lastMonth          |-> lastMonth,
                         monthsToFetch      |-> monthsToFetch,
                         requests           |-> Len(monthsToFetch) + Len(newDatasetIds),
                         allUpdates         |-> allUpdates,
                         newMetadata        |-> newMetadata,
                         updatedGlobalStats |-> updateGlobalStats(globalStats.data,
                                                   allUpdates, Len(knownDatasetIds)),
                         updatedIndex       |-> updateDatasetsIndex(fsIndex, newMetadata),
                         datasetsToUpdate   |-> SetAddAll(<< >>, IdsOfUpdates(allUpdates)),
                         writes             |-> 0,
                         before             |-> fileVars ]
                  /\ UNCHANGED lastRun
    /\ UNCHANGED << today, api, fileVars, merged, monthVars, mergeVars, rankVars, indexVars, laterVars >>

\* the metadata step 7 rebuilds from an existing datasets/<id>.json
MetadataOfFile(existing) ==
    [ exists       |-> TRUE,
      id           |-> existing.id,
      title        |-> existing.title,
      organization |-> existing.organization ]

\* main of sync-incremental.ts, step 7, one turn of the loop over
\* datasetsToUpdate: the metadata of the dataset are the new ones, or those of
\* its existing file, or fetched again (found: whether that request
\* succeeds); with metadata the dataset file is written.
IncrementalUpdateDataset ==
    /\ run.phase = "datasets"
    /\ run.datasetsToUpdate # << >>
    /\ \E found \in BOOLEAN :
         LET datasetId == Head(run.datasetsToUpdate)
             existing  == fsDatasets[datasetId]
             metadata  == IF MetadataGet(run.newMetadata, datasetId).exists
                          THEN MetadataGet(run.newMetadata, datasetId)
                          ELSE IF existing.exists
                          THEN MetadataOfFile(existing)
                          ELSE fetchDatasetMetadata(datasetId,
                                  IF found THEN UpstreamIds ELSE {})
             updatedStats == updateDatasetStats(existing, datasetId, run.allUpdates,
                                                metadata)
         IN  /\ fsDatasets' =
                  IF metadata.exists
                  THEN [ fsDatasets EXCEPT ![datasetId] =
                           writeJsonFile(existing, updatedStats, run.dryRun) ]
                  ELSE fsDatasets
             /\ run' = [ run EXCEPT
                           !.datasetsToUpdate = Tail(run.datasetsToUpdate),
                           !.writes = IF metadata.exists /\ ~run.dryRun
                                      THEN @ + 1 ELSE @ ]
    /\ UNCHANGED << today, api, fsGlobal, fsTop, fsIndex, lastRun, runs, merged,
                    monthVars, mergeVars, rankVars, indexVars, laterVars >>

\* the files of the datasets directory, in the order of readdirSync
DatasetFiles(datasets) ==
    LET ids == SelectSeq(PipeIds, LAMBDA id : datasets[id].exists)
    IN  SubSeq([ i \in 1..Len(ids) |-> datasets[ids[i]] ], 1, Len(ids))

\* main of sync-incremental.ts, steps 8 and 9: the rankings are recomputed
\* from the dataset files and the three global files written; the dataset files
\* are written again with what was read from them.
IncrementalFinish ==
    /\ run.phase = "datasets"
    /\ run.datasetsToUpdate = << >>
    /\ LET allDatasetStats    == DatasetFiles(fsDatasets)
           updatedTopDatasets == recalculateTopDatasets(allDatasetStats, today)
           writes             == IF run.dryRun THEN 0
                                 ELSE run.writes + 3 + Len(allDatasetStats)
       IN  /\ fsGlobal' = writeJsonFile(fsGlobal, FileOf(run.updatedGlobalStats),
                                        run.dryRun)
           /\ fsTop' = writeJsonFile(fsTop, FileOf(updatedTopDatasets), run.dryRun)
           /\ fsIndex' = writeJsonFile(fsIndex, FileOf(run.updatedIndex), run.dryRun)
           /\ UNCHANGED fsDatasets
           /\ lastRun' = IncrementalOutcome("ok", run.dryRun, run.parses, run.lastMonth, today,
                             run.monthsToFetch, run.requests, writes,
                             fileVars' # run.before)
    /\ merged' = IF run.dryRun THEN merged
                 ELSE merged \cup { run.allUpdates[i].month : i \in 1..Len(run.allUpdates) }
    /\ run' = RunIdle
    /\ UNCHANGED << today, api, runs, monthVars, mergeVars, rankVars, indexVars, laterVars >>

\* the process of the incremental run is killed, or a write fails, between two
\* steps
IncrementalInterrupt ==
    /\ run.phase = "datasets"
    /\ lastRun' = IncrementalOutcome("interrupted", run.dryRun, run.parses, run.lastMonth, today,
                      run.monthsToFetch, run.requests, run.writes,
                      fileVars # run.before)
    /\ run' = RunIdle
    /\ UNCHANGED << today, api, fileVars, runs, merged, monthVars, mergeVars, rankVars, indexVars, laterVars >>

\* the calendar moves to the date of the next run
Tick ==
    /\ run.phase = "idle"
    /\ \E i \in 1..(Len(PipeDates) - 1) :
         /\ today = PipeDates[i]
         /\ today' = PipeDates[i + 1]
    /\ UNCHANGED << pipeVars, monthVars, mergeVars, rankVars, indexVars, laterVars >>

\* the metric API publishes the record of a dataset for a month that has begun
Publish ==
    /\ run.phase = "idle"
    /\ Cardinality(api) < MaxApiRecords
    /\ \E r \in ApiRecords \ api :
         /\ r.metric_month <= getCurrentMonth(today)
         /\ api' = api \cup {r}
    /\ UNCHANGED << today, fileVars, run, lastRun, runs, merged,
                    monthVars, mergeVars, rankVars, indexVars, laterVars >>

Init ==
    /\ today = PipeDates[1]
    /\ api = {}
    /\ fsGlobal = NoFile
    /\ fsTop = NoFile
    /\ fsIndex = NoFile
    /\ fsDatasets = [ id \in Range(PipeIds) |-> NoFile ]
    /\ run = RunIdle
    /\ lastRun = NoRun
    /\ runs = 0
    /\ merged = {}
    /\ MonthParked
    /\ MergeParked
    /\ RankParked
    /\ IndexParked
    /\ LaterParked

Next ==
    \/ FullSync
    \/ IncrementalStart
    \/ IncrementalUpdateDataset
    \/ IncrementalFinish
    \/ IncrementalInterrupt
    \/ Tick
    \/ Publish

Spec == Init /\ [][Next]_vars

-----------------------------------------------------------------------------
(* Properties of the runs                                                   *)

\* the value of a month in the persisted series of all the datasets
RECURSIVE EntitiesValue(_, _, _)
EntitiesValue(files, month, field) ==
    IF files = << >>
    THEN 0
    ELSE SeriesValue(Head(files).monthlyStats, month, field)
         + EntitiesValue(Tail(files), month, field)

\* C1: when no run is in progress, every month of the series of
\* global-stats.json has, for the visits and for the downloads, the sum of
\* the values the dataset files hold for that month.
C1_GlobalIsSumOfEntities ==
    (run.phase = "idle" /\ fsGlobal.exists) =>
        \A i \in 1..Len(fsGlobal.data.monthlyStats) :
            LET stat == fsGlobal.data.monthlyStats[i]
            IN  /\ stat.visits
                     = EntitiesValue(DatasetFiles(fsDatasets), stat.month, "visits")
                /\ stat.downloads
                     = EntitiesValue(DatasetFiles(fsDatasets), stat.month, "downloads")

\* C5: an incremental run that found the last month of global-stats.json
\* equal to the current month computed no month to fetch, made no request,
\* wrote no file, left the four kinds of files as they were and ended
\* normally, with the outcome "noop".
C5_UpToDateIsNoop ==
    ( /\ lastRun.kind = "incremental"
      /\ lastRun.lastMonth # 0
      /\ lastRun.lastMonth = lastRun.currentMonth ) =>
        /\ lastRun.outcome = "noop"
        /\ lastRun.monthsToFetch = << >>
        /\ lastRun.requests = 0
        /\ lastRun.writes = 0
        /\ ~lastRun.changed

\* an incremental run, not a dry run, ended as a no-op on files a full
\* synchronisation of the same month had written, while the API holds a
\* record of that month
C5_Witness ==
    /\ lastRun.kind = "incremental"
    /\ ~lastRun.dryRun
    /\ lastRun.outcome = "noop"
    /\ fsGlobal.exists
    /\ lastRun.lastMonth = getCurrentMonth(today)
    /\ LastMonthOf(fsGlobal.data.monthlyStats) = lastRun.lastMonth
    /\ \E r \in api : r.metric_month = getCurrentMonth(today)

\* the datasets whose metadata request never succeeds
Unresolvable == Range(PipeIds) \ UpstreamIds

\* the ids of the entries of a datasets-index.json file
IndexIds(file) == IF file.exists THEN Range(IdsOfIndex(file)) ELSE {}

\* the ids of the entries of the lists of a top-datasets.json file
RankedIds(file) == IF file.exists THEN TopDatasetIds(file.data) ELSE {}

\* the step that ends an incremental run, not a dry run, normally
IncrementalEnds ==
    /\ run.phase = "datasets"
    /\ ~run.dryRun
    /\ run'.phase = "idle"
    /\ lastRun'.outcome = "ok"

\* what the run that ends did with the update u of a dataset without metadata:
\* its values were added to the month of the global series, the dataset is in
\* no entry of the index and of the rankings and, when ownSeries is asked
\* for, the dataset file holds the values of the month
UnresolvedHandled(u, ownSeries) ==
    /\ fsGlobal'.exists
    /\ \A field \in Metrics :
         SeriesValue(fsGlobal'.data.monthlyStats, u.month, field)
           = SeriesValue(fsGlobal.data.monthlyStats, u.month, field)
             + BatchSum(run.allUpdates, u.month, field)
    /\ u.datasetId \notin IndexIds(fsIndex')
    /\ u.datasetId \notin RankedIds(fsTop')
    /\ ownSeries =>
         /\ fsDatasets'[u.datasetId].exists
         /\ \A field \in Metrics :
              SeriesValue(fsDatasets'[u.datasetId].monthlyStats, u.month, field)
                >= u[field]

\* C11: an incremental run that ends normally has, for every update of a
\* dataset whose metadata cannot be resolved, merged the values into the
\* global series and kept them in the dataset's own file, and the dataset is
\* in no entry of the index and in no ranking list.
C11_UnresolvedEntityKept ==
    [][ IncrementalEnds =>
          \A i \in 1..Len(run.allUpdates) :
              run.allUpdates[i].datasetId \in Unresolvable =>
                  UnresolvedHandled(run.allUpdates[i], TRUE) ]_vars

\* C11 without the dataset's own file: the values are merged into the global
\* series and the dataset is in no entry of the index and in no ranking list
C11_UnresolvedEntityMerged ==
    [][ IncrementalEnds =>
          \A i \in 1..Len(run.allUpdates) :
              run.allUpdates[i].datasetId \in Unresolvable =>
                  UnresolvedHandled(run.allUpdates[i], FALSE) ]_vars

\* C12: an incremental run that failed or was interrupted changed none of the
\* files, and while a run is in progress no dataset file differs from what
\* it was when the run started (no dataset file is written before
\* global-stats.json).
C12_AllOrNothing ==
    /\ ( /\ lastRun.kind = "incremental"
         /\ lastRun.outcome \in {"error", "interrupted"} ) => ~lastRun.changed
    /\ run.phase = "datasets" => fileVars = run.before

\* C12 for the failures of steps 1 to 6 alone (no global-stats.json, a request
\* of the metric API that fails): the run changed none of the files
C12_FailureBeforeStep7 ==
    (lastRun.kind = "incremental" /\ lastRun.outcome = "error") => ~lastRun.changed

\* C13: an id that has an entry in datasets-index.json has one after every
\* step of every run.
C13_IndexKeepsEntries ==
    [][ IndexIds(fsIndex) \subseteq IndexIds(fsIndex') ]_vars

\* C13 for the incremental script alone: the steps of its runs keep the ids
\* of the index
C13_IncrementalKeepsEntries ==
    [][ run'.phase = "datasets" \/ run.phase = "datasets"
          => IndexIds(fsIndex) \subseteq IndexIds(fsIndex') ]_vars

-----------------------------------------------------------------------------
(* IndexSpec: createDatasetsIndex and updateDatasetsIndex applied to        *)
(* metadata maps, the index one run writes being the one the next reads     *)

MaxMetadata == 2
MaxIndexRuns == 2

IndexTitles == {"Agriculture", "Élection", "Energie", "Énergie", "Transport"}

\* a metadata map holds one entry per id
IndexInit ==
    /\ today = IdleDate
    /\ ixExisting = NoFile
    /\ ixNew = << >>
    /\ ixOut = IxIdle
    /\ MonthParked
    /\ MergeParked
    /\ RankParked
    /\ PipeParked
    /\ LaterParked

\* the metadata of one more dataset are resolved
IndexAddMetadata ==
    /\ ixOut.n < MaxIndexRuns
    /\ Len(ixNew) < MaxMetadata
    /\ \E id \in Range(PipeIds), title \in IndexTitles :
         /\ \A i \in 1..Len(ixNew) : ixNew[i].id # id
         /\ ixNew' = Append(ixNew,
                        [ exists |-> TRUE, id |-> id, title |-> title,
                          organization |-> IF id = "d1" THEN "INSEE" ELSE "" ])
    /\ UNCHANGED << today, ixExisting, ixOut, monthVars, mergeVars, rankVars, pipeVars, laterVars >>

\* a script builds the index and writes it
IndexApply ==
    /\ ixOut.n < MaxIndexRuns
    /\ \E script \in {"full", "incremental"} :
         LET result == IF script = "full"
                       THEN createDatasetsIndex(ixNew)
                       ELSE updateDatasetsIndex(ixExisting, ixNew)
         IN  /\ ixOut' = [ applied  |-> TRUE,
                           n        |-> ixOut.n + 1,
                           script   |-> script,
                           existing |-> ixExisting,
                           new      |-> ixNew,
                           result   |-> result ]
             /\ ixExisting' = FileOf(result)
    /\ ixNew' = << >>
    /\ UNCHANGED << today, monthVars, mergeVars, rankVars, pipeVars, laterVars >>

IndexNext == IndexAddMetadata \/ IndexApply

IndexSpec == IndexInit /\ [][IndexNext]_vars

\* the titles of the model in the order of the French collation: the accent
\* counts only between titles of equal letters
FrenchOrder == << "Agriculture", "Élection", "Energie", "Énergie", "Transport" >>
FrenchRank(title) == CHOOSE i \in 1..Len(FrenchOrder) : FrenchOrder[i] = title

\* C14: the index a script wrote holds at most one entry per id and its
\* entries are in the order of the French collation of their titles.
C14_IndexSortedUnique ==
    ixOut.applied =>
        /\ \A i, j \in 1..Len(ixOut.result) :
               ixOut.result[i].id = ixOut.result[j].id => i = j
        /\ \A i \in 1..(Len(ixOut.result) - 1) :
               FrenchRank(ixOut.result[i].title)
                 <= FrenchRank(ixOut.result[i + 1].title)

\* the incremental script added "Énergie" to an index of "Élection" and
\* "Agriculture", resolved in this order
C14_Witness ==
    /\ ixOut.applied
    /\ ixOut.script = "incremental"
    /\ ixOut.existing.exists
    /\ Len(ixOut.existing.data) = 2
    /\ Len(ixOut.new) = 1
    /\ Len(ixOut.result) = 3
    /\ ixOut.result[1].title = "Agriculture"
    /\ ixOut.result[2].title = "Élection"
    /\ ixOut.result[3].title = "Énergie"

\* C13 for updateDatasetsIndex: every id of the existing index has an entry in
\* the result, and the entry of an id of newMetadata is the one of newMetadata
C13_NewMetadataReplaces ==
    (ixOut.applied /\ ixOut.script = "incremental") =>
        /\ IndexIds(ixOut.existing) \subseteq IndexIds(FileOf(ixOut.result))
        /\ \A i \in 1..Len(ixOut.new) :
             \E j \in 1..Len(ixOut.result) :
                 ixOut.result[j] = SummaryOf(ixOut.new[i])

-----------------------------------------------------------------------------
(* Properties of the records of the files                                   *)

\* the sum of a field over the months of a series
SeriesTotal(series, field) ==
    LET RECURSIVE upTo(_)
        upTo(n) == IF n = 0 THEN 0 ELSE series[n][field] + upTo(n - 1)
    IN  upTo(Len(series))

\* the totals of a record are the sums over its monthly series
TotalsAreSums(record) ==
    /\ record.totalVisits = SeriesTotal(record.monthlyStats, "visits")
    /\ record.totalDownloads = SeriesTotal(record.monthlyStats, "downloads")

\* C15: in global-stats.json and in every dataset file, totalVisits and
\* totalDownloads are the sums of the visits and of the downloads of the
\* record's monthly series.
C15_TotalsAreSums ==
    /\ fsGlobal.exists => TotalsAreSums(fsGlobal.data)
    /\ \A id \in DOMAIN fsDatasets :
         fsDatasets[id].exists => TotalsAreSums(fsDatasets[id])

\* an incremental run ended normally on a global series of two months or
\* more, with a dataset file of two months or more and downloads in it
C15_Witness ==
    /\ lastRun.kind = "incremental"
    /\ lastRun.outcome = "ok"
    /\ lastRun.changed
    /\ fsGlobal.exists
    /\ Len(fsGlobal.data.monthlyStats) >= 2
    /\ \E id \in DOMAIN fsDatasets :
         /\ fsDatasets[id].exists
         /\ Len(fsDatasets[id].monthlyStats) >= 2
         /\ fsDatasets[id].totalDownloads > 0

\* C16: a step of a run removes no dataset file and no month of the series
\* of a dataset file.
C16_SeriesOnlyGrow ==
    [][ \A id \in DOMAIN fsDatasets :
          fsDatasets[id].exists =>
              /\ fsDatasets'[id].exists
              /\ SeriesMonths(fsDatasets[id].monthlyStats)
                   \subseteq SeriesMonths(fsDatasets'[id].monthlyStats) ]_vars

\* step 7 of an incremental run is over and the file of a dataset that had
\* one when the run started has more months than it had
C16_Witness ==
    /\ run.phase = "datasets"
    /\ run.datasetsToUpdate = << >>
    /\ \E id \in DOMAIN fsDatasets :
         /\ run.before[4][id].exists
         /\ fsDatasets[id].exists
         /\ Len(fsDatasets[id].monthlyStats) > Len(run.before[4][id].monthlyStats)

\* the part of a series at or before a month
UpTo(series, month) == SelectSeq(series, LAMBDA stat : stat.month <= month)

\* the series of a file, empty when the file does not exist
SeriesOfFile(file) == IF file.exists THEN file.monthlyStats ELSE << >>

\* C17: no step of an incremental run changes, in global-stats.json or in a
\* dataset file, the value of a month at or before the last month
\* global-stats.json had when the run started.
C17_HistoryUntouched ==
    [][ run.phase = "datasets" =>
          /\ fsGlobal'.exists
          /\ UpTo(fsGlobal'.data.monthlyStats, run.lastMonth)
               = UpTo(fsGlobal.data.monthlyStats, run.lastMonth)
          /\ \A id \in DOMAIN fsDatasets :
               UpTo(SeriesOfFile(fsDatasets'[id]), run.lastMonth)
                 = UpTo(SeriesOfFile(fsDatasets[id]), run.lastMonth) ]_vars

\* an incremental run ended normally and left a dataset file with a month
\* at or before the last month it found and a month after it
C17_Witness ==
    /\ lastRun.kind = "incremental"
    /\ lastRun.outcome = "ok"
    /\ ~lastRun.dryRun
    /\ \E id \in DOMAIN fsDatasets :
         /\ fsDatasets[id].exists
         /\ \E i, j \in 1..Len(fsDatasets[id].monthlyStats) :
              /\ fsDatasets[id].monthlyStats[i].month <= lastRun.lastMonth
              /\ fsDatasets[id].monthlyStats[j].month > lastRun.lastMonth

\* the months of a list
MonthsOf(months) == { months[i] : i \in 1..Len(months) }

\* C18: over the incremental runs that follow one another on the files (the
\* clock only moves forward), a month an earlier run merged into
\* global-stats.json is never among the months a later run fetches, whether
\* that run goes on to its steps 7 to 9 or ends at the fetch.
C18_MergedOnce ==
    [][ /\ run'.phase = "datasets" =>
              MonthsOf(run'.monthsToFetch) \cap merged' = {}
        /\ (runs' # runs /\ run'.phase = "idle" /\ lastRun'.kind = "incremental") =>
              MonthsOf(lastRun'.monthsToFetch) \cap merged = {} ]_vars

\* an incremental run is fetching months after an earlier incremental run
\* merged a month into global-stats.json
C18_Witness ==
    /\ run.phase = "datasets"
    /\ ~run.dryRun
    /\ merged # {}
    /\ run.monthsToFetch # << >>
    /\ merged \subseteq { fsGlobal.data.monthlyStats[i].month :
                             i \in 1..Len(fsGlobal.data.monthlyStats) }

\* The entities of a full recomputation: the datasets that have a dataset
\* file (those whose metadata are resolved), each with the display fields of
\* its file and the series of all the records the metric API holds for it.
AllObservations(records, datasets) ==
    LET files == DatasetFiles(datasets)
    IN  SubSeq(
          [ i \in 1..Len(files) |->
              [ id           |-> files[i].id,
                title        |-> files[i].title,
                organization |-> files[i].organization,
                monthlyStats |-> SortByMonth(
                                   fetchDatasetMetrics(records, files[i].id).monthlyStats) ] ],
          1, Len(files))

\* C19: the top-datasets.json an incremental run writes holds the lists a
\* recomputation over all the records of the metric API, for the datasets
\* with resolved metadata and the same current month, would hold.
C19_RankingIsFullRecomputation ==
    [][ IncrementalEnds =>
          fsTop'.data = recalculateTopDatasets(AllObservations(api, fsDatasets'), today) ]_vars

\* One full synchronisation while the metadata of d1 could not be fetched,
\* then one incremental run that fetched them: the file of d1 holds the new
\* month alone and its all-time value leaves out the month of the full
\* synchronisation.
C19_NewFileLacksHistory ==
    /\ runs = 2
    /\ lastRun.kind = "incremental"
    /\ lastRun.outcome = "ok"
    /\ ~lastRun.dryRun
    /\ api = { ApiRecord(1, 1), ApiRecord(1, 2) }
    /\ fsDatasets["d1"].exists
    /\ Len(fsDatasets["d1"].monthlyStats) = 1
    /\ fsTop.data # recalculateTopDatasets(AllObservations(api, fsDatasets), today)

\* the step is a whole run of sync-stats.ts under --dry-run
FullDryRun ==
    /\ run.phase = "idle"
    /\ run'.phase = "idle"
    /\ runs' # runs
    /\ lastRun'.kind = "full"
    /\ lastRun'.dryRun

\* C20: under --dry-run no step of a run of sync-stats.ts or of
\* sync-incremental.ts creates or changes global-stats.json, top-datasets.json,
\* datasets-index.json or a dataset file, and the incremental run that ends
\* leaves the four as they were when it started.
C20_DryRunWritesNothing ==
    [][ /\ FullDryRun => fileVars' = fileVars
        /\ (run.phase = "datasets" /\ run.dryRun) =>
              /\ fileVars' = fileVars
              /\ run'.phase = "idle" => ~lastRun'.changed
        /\ (run'.phase = "datasets" /\ run'.dryRun) => fileVars' = fileVars ]_vars

\* an incremental run under --dry-run went through step 7 with updates to
\* merge and is about to write a global-stats.json that differs from the file
C20_Witness ==
    /\ run.phase = "datasets"
    /\ run.dryRun
    /\ run.datasetsToUpdate = << >>
    /\ run.allUpdates # << >>
    /\ FileOf(run.updatedGlobalStats) # fsGlobal
    /\ \E id \in DOMAIN fsDatasets :
         /\ fsDatasets[id].exists
         /\ \E i \in 1..Len(run.allUpdates) : run.allUpdates[i].datasetId = id
    /\ fileVars = run.before

-----------------------------------------------------------------------------
(* PageSpec: fetchAllDatasetIds of sync-stats.ts applied to the pages of    *)
(* /datasets/data/, with and without --test.  The pages and the limit are   *)
(* scaled down: a page holds at most PageLen entries (PAGE_SIZE is 50) and  *)
(* the limit of --test is TestMaxDatasets (50 in main), equal to the page   *)
(* size as in the script.                                                   *)

PageLen == 2
MaxPages == 3
TestMaxDatasets == 2

PageDatasetIds == {"a", "b", "c", "d"}

\* the while loop of fetchAllDatasetIds from page `page` on; datasetIds is the
\* Set built so far; hasMore is links.next !== null; maxDatasets = 0 stands for
\* undefined
RECURSIVE FetchPagesFrom(_, _, _, _)
FetchPagesFrom(pages, page, datasetIds, maxDatasets) ==
    LET added   == SetAddAll(datasetIds, pages[page])
        hasMore == page < Len(pages)
    IN  IF maxDatasets # 0 /\ Len(added) >= maxDatasets
        THEN added
        ELSE IF hasMore
        THEN FetchPagesFrom(pages, page + 1, added, maxDatasets)
        ELSE added

\* fetchAllDatasetIds(options): Array.from(datasetIds)
fetchAllDatasetIdsPaged(pages, maxDatasets) ==
    FetchPagesFrom(pages, 1, << >>, maxDatasets)

\* the pages the API may serve: one to MaxPages pages of at most PageLen
\* entries (several records of one dataset may share a page)
PageContents == UNION { [1..n -> PageDatasetIds] : n \in 0..PageLen }
PageLists == UNION { [1..n -> PageContents] : n \in 1..MaxPages }

PageInit ==
    /\ today = IdleDate
    /\ pgPages \in PageLists
    /\ pgMax \in {0, TestMaxDatasets}
    /\ pgOut = PgIdle
    /\ MonthParked
    /\ MergeParked
    /\ RankParked
    /\ PipeParked
    /\ IndexParked
    /\ RetryParked
    /\ DetailParked
    /\ SearchParked

\* the script lists the datasets
PageFetch ==
    /\ ~pgOut.applied
    /\ pgOut' = [ applied |-> TRUE,
                  ids     |-> fetchAllDatasetIdsPaged(pgPages, pgMax) ]
    /\ UNCHANGED << today, pgPages, pgMax, scriptVars, retryVars, detailVars, searchVars >>

PageNext == PageFetch

PageSpec == PageInit /\ [][PageNext]_vars

\* C21: with --test, fetchAllDatasetIds returns at most maxDatasets ids.
C21_AtMostMaxDatasets ==
    (pgOut.applied /\ pgMax # 0) => Len(pgOut.ids) <= pgMax

\* C21 with a page of slack: the limit is looked at after each whole page,
\* so fewer than maxDatasets + PageLen ids are returned
C21_AtMostOnePageOver ==
    (pgOut.applied /\ pgMax # 0) => Len(pgOut.ids) < pgMax + PageLen

-----------------------------------------------------------------------------
(* RetrySpec: one call of fetchWithRetry(url), each turn of its loop being  *)
(* one step; the calls of fetch and of sleep are logged in order            *)

\* retries = 3, the default no caller overrides
DefaultRetries == 3

\* What one call of fetch(url) can do: reject (network error), or resolve
\* with a response of some status whose body is or is not JSON.
FetchStatuses == {200, 404, 500}
FetchBodies == {"data1", "data2", "notJson"}
FetchOutcomes ==
    { [kind |-> "rejected"] }
      \cup { [kind |-> "response", status |-> st, body |-> b] :
               st \in FetchStatuses, b \in FetchBodies }

\* response.ok
ResponseOk(response) == response.status >= 200 /\ response.status <= 299

\* the try block: the value returned, or the error thrown
TryFetch(outcome) ==
    IF outcome.kind = "rejected"
    THEN [threw |-> TRUE, error |-> [name |-> "TypeError", status |-> 0]]
    ELSE IF ~ResponseOk(outcome)
    THEN [threw |-> TRUE, error |-> [name |-> "Error", status |-> outcome.status]]
    ELSE IF outcome.body = "notJson"
    THEN [threw |-> TRUE, error |-> [name |-> "SyntaxError", status |-> 0]]
    ELSE [threw |-> FALSE, value |-> outcome.body]

\* (faulty variant: the same delay after every failure)
BackoffDelay_Constant(i) == 1000

\* 1000 * (i + 1)
BackoffDelay(i) == 1000 * (i + 1)

RetryInit ==
    /\ today = IdleDate
    /\ rt = [phase |-> "loop", i |-> 0, retries |-> DefaultRetries]
    /\ rtLog = << >>
    /\ MonthParked
    /\ MergeParked
    /\ RankParked
    /\ PipeParked
    /\ IndexParked
    /\ PageParked
    /\ DetailParked
    /\ SearchParked

\* one turn of for (let i = 0; i < retries; i++), or the throw after the loop
RetryIteration ==
    /\ rt.phase = "loop"
    /\ IF rt.i < rt.retries
       THEN \E outcome \in FetchOutcomes :
              LET try     == TryFetch(outcome)
                  fetched == Append(rtLog, [call |-> "fetch", outcome |-> outcome])
              IN  IF ~try.threw
                  THEN /\ rt' = [phase |-> "returned", value |-> try.value]
                       /\ rtLog' = fetched
                  ELSE IF rt.i = rt.retries - 1
                  THEN /\ rt' = [phase |-> "thrown", error |-> try.error]
                       /\ rtLog' = fetched
                  ELSE /\ rt' = [rt EXCEPT !.i = @ + 1]
                       /\ rtLog' = Append(fetched,
                                      [call |-> "sleep", ms |-> BackoffDelay(rt.i)])
       ELSE /\ rt' = [phase |-> "thrown",
                      error |-> [name |-> "Unreachable", status |-> 0]]
            /\ UNCHANGED rtLog
    /\ UNCHANGED << today, scriptVars, pageVars, detailVars, searchVars >>

RetryNext == RetryIteration

RetrySpec == RetryInit /\ [][RetryNext]_vars

\* an attempt that succeeded: a response with a 2xx status whose body is JSON
AttemptSucceeded(event) ==
    /\ event.call = "fetch"
    /\ event.outcome.kind = "response"
    /\ event.outcome.status \in 200..299
    /\ event.outcome.body # "notJson"

AttemptFailed(event) == event.call = "fetch" /\ ~AttemptSucceeded(event)

\* the number of the attempt logged at position p
AttemptNumber(p) == Cardinality({ q \in 1..p : rtLog[q].call = "fetch" })

IncrementalStarts ==
    /\ run.phase = "idle"
    /\ runs' # runs
    /\ run'.phase = "datasets" \/ lastRun'.kind = "incremental"

\* C23: an incremental run that finds no global-stats.json, or one that is
\* not JSON, ends with an error at step 1: it made no request, wrote no file
\* and left every file as it was; a run that goes on has read the file.
C23_NoGlobalStatsStops ==
    [][ IncrementalStarts =>
          /\ run'.phase = "datasets" => (fsGlobal.exists /\ run'.parses)
          /\ (run'.phase = "idle" /\ (~fsGlobal.exists \/ ~lastRun'.parses)) =>
                /\ lastRun'.outcome = "error"
                /\ lastRun'.requests = 0
                /\ lastRun'.writes = 0
                /\ ~lastRun'.changed
                /\ fileVars' = fileVars ]_vars

\* an incremental run ended with an error on a global-stats.json that exists
\* but is not JSON, while the API holds a month to fetch
C23_Witness ==
    /\ lastRun.kind = "incremental"
    /\ ~lastRun.dryRun
    /\ ~lastRun.parses
    /\ lastRun.outcome = "error"
    /\ fsGlobal.exists
    /\ \E r \in api : r.metric_month > LastMonthOf(fsGlobal.data.monthlyStats)
    /\ LastMonthOf(fsGlobal.data.monthlyStats) < getCurrentMonth(today)

-----------------------------------------------------------------------------
(* getMonthsAgo against the calendar, on the clocks of MonthSpec            *)

\* the offsets the `periods` object passes to getMonthsAgo
PeriodOffsets == {0, 1, 2, 12, 13, 24}

\* getMonthsAgo(n) is the month n calendar months before the current month
MonthsAgoExact(now) ==
    \A n \in PeriodOffsets :
        getMonthsAgo(now, n) = PlusMonths(getCurrentMonth(now), 0 - n)

\* C24: on every date getMonthsAgo(n) is the month exactly n calendar months
\* before getCurrentMonth(), for n in {0, 1, 2, 12, 13, 24}, and
\* getMonthsAgo(1) is never the current month.
C24_MonthsAgoExact ==
    /\ MonthsAgoExact(today)
    /\ getMonthsAgo(today, 1) # getCurrentMonth(today)

\* C24 on the dates whose day exists in every month (the 2nd)
C24_MonthsAgoExactUntilDay28 ==
    today.d <= 28 => (MonthsAgoExact(today) /\ getMonthsAgo(today, 1) # getCurrentMonth(today))

-----------------------------------------------------------------------------
(* Rankings, index and counts written by the runs (specification Spec)      *)

\* the step is a whole run of sync-stats.ts that wrote its files
FullSyncEnds ==
    /\ run.phase = "idle"
    /\ run'.phase = "idle"
    /\ runs' # runs
    /\ lastRun'.kind = "full"
    /\ lastRun'.outcome = "ok"
    /\ ~lastRun'.dryRun

\* C25: the ids of the lists of the top-datasets.json a run writes all have
\* an entry in the datasets-index.json the same run writes.
C25_RankedInIndex ==
    [][ (FullSyncEnds \/ IncrementalEnds) =>
          RankedIds(fsTop') \subseteq IndexIds(fsIndex') ]_vars

\* C25 for the full synchronisation alone
C25_FullSyncRankedInIndex ==
    [][ FullSyncEnds => RankedIds(fsTop') \subseteq IndexIds(fsIndex') ]_vars

\* An incremental run ended after the lookup of a new dataset failed in
\* fetchMissingMetadata and succeeded in step 7: the dataset has a file and is
\* ranked, and has no entry in the index.
C25_RetriedLookupNotIndexed ==
    /\ lastRun.kind = "incremental"
    /\ lastRun.outcome = "ok"
    /\ ~lastRun.dryRun
    /\ runs = 2
    /\ \E id \in UpstreamIds :
         /\ fsDatasets[id].exists
         /\ id \in RankedIds(fsTop)
         /\ id \notin IndexIds(fsIndex)

\* C26: after an incremental run the totalDatasets of global-stats.json is at
\* least the totalDatasets the file held before the run.
C26_TotalDatasetsGrows ==
    [][ IncrementalEnds =>
          fsGlobal'.data.totalDatasets >= fsGlobal.data.totalDatasets ]_vars

\* C26 from a global-stats.json whose count is that of the index (every
\* dataset the file counts has an entry in datasets-index.json)
C26_GrowsFromIndexCount ==
    [][ (IncrementalEnds /\ fsGlobal.data.totalDatasets <= Cardinality(IndexIds(fsIndex))) =>
          fsGlobal'.data.totalDatasets >= fsGlobal.data.totalDatasets ]_vars

\* One full synchronisation then one incremental run: the count written by
\* the incremental run is below the count of the datasets the full
\* synchronisation found in the metric API.
C26_CountDropped ==
    /\ runs = 2
    /\ lastRun.kind = "incremental"
    /\ lastRun.outcome = "ok"
    /\ ~lastRun.dryRun
    /\ fsGlobal.data.totalDatasets < Len(fetchAllDatasetIds(api))

-----------------------------------------------------------------------------
(* Full synchronisation and incremental merge on the same records of one    *)
(* dataset (specification MergeSpec: the records of d1 in the batch)         *)

\* C27: the monthly series fetchDatasetMetrics builds from the records of a
\* dataset is the series updateDatasetStats builds by merging the same
\* records into an empty series, whatever months the records repeat.
C27_FullAgreesWithMerge ==
    mgOut.applied =>
        SortByMonth(mgOut.full.monthlyStats) = mgOut.dsNew.monthlyStats

\* C27 for records of pairwise distinct months
C27_AgreeOnDistinctMonths ==
    ( /\ mgOut.applied
      /\ \A i, j \in 1..Len(mgUpdates) :
           (i # j /\ mgUpdates[i].datasetId = "d1" /\ mgUpdates[j].datasetId = "d1")
             => mgUpdates[i].month # mgUpdates[j].month ) =>
        SortByMonth(mgOut.full.monthlyStats) = mgOut.dsNew.monthlyStats

-----------------------------------------------------------------------------
(* DetailSpec: the component DatasetDetail.  Each call of loadDataset is a  *)
(* process that stops at its awaits; a step is what it does between two     *)
(* awaits.  The datasetId prop may change while loads are in flight.        *)

MaxLoads == 3

DetailIds == {"d1", "d2"}

\* null, for dataset and error
DtNull == [isNull |-> TRUE]

\* the content of /data/datasets/<id>.json
LocalDataset(id) == [isNull |-> FALSE, id |-> id, source |-> "local", months |-> 1]

\* the DatasetDetails built from the APIs (transformApiData, or the record
\* with monthlyStats: [] when the dataset has no statistics)
ApiDataset(id, months) == [isNull |-> FALSE, id |-> id, source |-> "api", months |-> months]

\* an error message, and the load that set it
DtError(message, id) == [isNull |-> FALSE, message |-> message, of |-> id]

\* the catch block of loadDataset
DtCatch(state, id) ==
    [ state EXCEPT !.error = DtError("Une erreur est survenue", id),
                   !.loading = FALSE ]

\* the body of the effect before its first await: setLoading(true),
\* setError(null), setLoadingSource(...)
DtEffect(state) ==
    [ state EXCEPT !.loading = TRUE,
                   !.error = DtNull,
                   !.loadingSource = "local" ]

\* a call of loadDataset that awaits the local file
DtLoad(id) == [id |-> id, pc |-> "local", local |-> "pending"]

\* what the component renders
DtScreen(state) ==
    IF state.loading THEN "loading"
    ELSE IF ~state.error.isNull THEN "error"
    ELSE IF state.dataset.isNull THEN "unavailable"
    ELSE "dataset"

\* the component is mounted with a datasetId and its effect runs
DetailInit ==
    /\ today = IdleDate
    /\ dtId \in DetailIds
    /\ dtState = DtEffect([ dataset       |-> DtNull,
                            description   |-> "",
                            loading       |-> TRUE,
                            loadingSource |-> "",
                            error         |-> DtNull ])
    /\ dtLoads = << DtLoad(dtId) >>
    /\ MonthParked
    /\ MergeParked
    /\ RankParked
    /\ PipeParked
    /\ IndexParked
    /\ PageParked
    /\ RetryParked
    /\ SearchParked

\* the datasetId prop changes: the effect runs again, nothing cancels the
\* calls in flight
DetailChangeId ==
    /\ Len(dtLoads) < MaxLoads
    /\ \E id \in DetailIds \ {dtId} :
         /\ dtId' = id
         /\ dtState' = DtEffect(dtState)
         /\ dtLoads' = Append(dtLoads, DtLoad(id))
    /\ UNCHANGED << today, scriptVars, pageVars, retryVars, searchVars >>

\* fetch(`/data/datasets/${datasetId}.json`) settles: a response that is ok
\* and parses, a response that is not ok, or an exception (rejected fetch,
\* body that is not JSON)
DetailLocalResponse ==
    /\ \E k \in 1..Len(dtLoads), outcome \in {"ok", "notOk", "throw"} :
         LET id == dtLoads[k].id
         IN  /\ dtLoads[k].pc = "local"
             /\ IF outcome = "ok"
                THEN /\ dtState' = [ dtState EXCEPT !.dataset = LocalDataset(id),
                                                     !.loading = FALSE ]
                     /\ dtLoads' = [ dtLoads EXCEPT ![k].pc = "description",
                                                     ![k].local = "ok" ]
                ELSE IF outcome = "notOk"
                THEN /\ dtState' = [ dtState EXCEPT !.loadingSource = "api" ]
                     /\ dtLoads' = [ dtLoads EXCEPT ![k].pc = "metadata",
                                                     ![k].local = "miss" ]
                ELSE /\ dtState' = DtCatch(dtState, id)
                     /\ dtLoads' = [ dtLoads EXCEPT ![k].pc = "done",
                                                     ![k].local = "failed" ]
    /\ UNCHANGED << today, dtId, scriptVars, pageVars, retryVars, searchVars >>

\* after the local file: fetchDatasetMetadata(datasetId) settles with the
\* metadata, with null (response not ok) or with an exception
DetailDescriptionResponse ==
    /\ \E k \in 1..Len(dtLoads), outcome \in {"metadata", "null", "throw"} :
         LET id == dtLoads[k].id
         IN  /\ dtLoads[k].pc = "description"
             /\ dtState' = IF outcome = "metadata"
                           THEN [ dtState EXCEPT !.description = id ]
                           ELSE IF outcome = "null"
                           THEN dtState
                           ELSE DtCatch(dtState, id)
             /\ dtLoads' = [ dtLoads EXCEPT ![k].pc = "done" ]
    /\ UNCHANGED << today, dtId, scriptVars, pageVars, retryVars, searchVars >>

\* the fallback: fetchDatasetMetadata(datasetId) settles
DetailMetadataResponse ==
    /\ \E k \in 1..Len(dtLoads), outcome \in {"metadata", "null", "throw"} :
         LET id == dtLoads[k].id
         IN  /\ dtLoads[k].pc = "metadata"
             /\ IF outcome = "metadata"
                THEN /\ dtState' = [ dtState EXCEPT !.description = id,
                                                     !.loadingSource = "stats" ]
                     /\ dtLoads' = [ dtLoads EXCEPT ![k].pc = "metric" ]
                ELSE /\ dtState' =
                          IF outcome = "null"
                          THEN [ dtState EXCEPT
                                   !.error = DtError("Ce dataset n'existe pas", id),
                                   !.loading = FALSE ]
                          ELSE DtCatch(dtState, id)
                     /\ dtLoads' = [ dtLoads EXCEPT ![k].pc = "done" ]
    /\ UNCHANGED << today, dtId, scriptVars, pageVars, retryVars, searchVars >>

\* the fallback: fetchMetricStats(datasetId) settles with no entry, with
\* entries, or with an exception
DetailMetricResponse ==
    /\ \E k \in 1..Len(dtLoads), outcome \in {"empty", "data", "throw"} :
         LET id == dtLoads[k].id
         IN  /\ dtLoads[k].pc = "metric"
             /\ dtState' =
                  IF outcome = "throw"
                  THEN DtCatch(dtState, id)
                  ELSE [ dtState EXCEPT
                           !.dataset = ApiDataset(id, IF outcome = "empty" THEN 0 ELSE 1),
                           !.loading = FALSE ]
             /\ dtLoads' = [ dtLoads EXCEPT ![k].pc = "done" ]
    /\ UNCHANGED << today, dtId, scriptVars, pageVars, retryVars, searchVars >>

DetailNext ==
    \/ DetailChangeId
    \/ DetailLocalResponse
    \/ DetailDescriptionResponse
    \/ DetailMetadataResponse
    \/ DetailMetricResponse

DetailSpec == DetailInit /\ [][DetailNext]_vars

\* every call of loadDataset has ended
DtAllDone == \A k \in 1..Len(dtLoads) : dtLoads[k].pc = "done"

\* C28: with one load, once the local file has loaded the dataset is what
\* the component shows, whatever the description request does; and when
\* every call of loadDataset has ended, loading is false.
C28_LocalDatasetStaysShown ==
    /\ ( /\ Len(dtLoads) = 1
         /\ dtLoads[1].local = "ok" ) => DtScreen(dtState) = "dataset"
    /\ DtAllDone => ~dtState.loading

\* C28, its second half alone: on every path loading ends false
C28_LoadingEnds == DtAllDone => ~dtState.loading

\* the local file loaded, the description request threw: the error screen
C28_ErrorAfterLocalHit ==
    /\ Len(dtLoads) = 1
    /\ dtLoads[1].local = "ok"
    /\ dtLoads[1].pc = "done"
    /\ ~dtState.dataset.isNull
    /\ DtScreen(dtState) = "error"

C30_LateResponseShown ==
    /\ Len(dtLoads) = 2
    /\ DtAllDone
    /\ dtLoads[2].id = dtId
    /\ dtLoads[2].local = "ok"
    /\ DtScreen(dtState) = "dataset"
    /\ dtState.dataset.id = dtLoads[1].id
    /\ dtState.dataset.id # dtId

-----------------------------------------------------------------------------
(* SearchSpec: the search box of Home (app/page.tsx).  A query is the       *)
(* sequence of its characters, all lower-case; each run of the effect that  *)
(* calls the APIs is a process that stops at its two Promise.all.           *)

MaxSearches == 3

\* what the user may type
SearchQueries == { << >>, << "a" >>, << "a", "g" >>, << "t", "r" >> }

\* text.includes(query)
Includes(text, query) ==
    \E i \in 1..(Len(text) - Len(query) + 1) :
        SubSeq(text, i, i + Len(query) - 1) = query

SearchEntry(id, title, organization) ==
    [id |-> id, title |-> title, organization |-> organization]

\* datasetsIndex, loaded from /data/datasets-index.json
SearchIndex ==
    << SearchEntry("d1", << "a", "g", "r", "i" >>, << "i", "n", "s", "e", "e" >>),
       SearchEntry("d2", << "t", "r", "a", "m" >>, << "r", "a", "t", "p" >>) >>

\* the datasets of data.gouv.fr: those of the index, and d3 and d4 that the
\* index does not hold
SearchCatalogue ==
    SearchIndex
      \o << SearchEntry("d3", << "a", "g", "e" >>, << "i", "n", "s", "e", "e" >>),
            SearchEntry("d4", << "t", "r", "i" >>, << "a", "g", "e", "n", "c", "e" >>) >>

\* datasetsIndex.filter(title includes query || organization includes query)
LocalResults(query) ==
    SelectSeq(SearchIndex,
              LAMBDA dataset : Includes(dataset.title, query)
                               \/ Includes(dataset.organization, query))

\* /api/1/datasets/?q=<query>: the datasets whose title matches
ApiDatasets(query) ==
    SelectSeq(SearchCatalogue, LAMBDA dataset : Includes(dataset.title, query))

\* /api/1/organizations/?q=<query> then /organizations/<id>/datasets/: the
\* datasets of the organizations whose name matches
OrgDatasets(query) ==
    SelectSeq(SearchCatalogue, LAMBDA dataset : Includes(dataset.organization, query))

\* the loop over [...localResults, ...apiDatasets, ...allOrgDatasets] with
\* seenIds: the first entry of each id, in order
RECURSIVE DedupeById(_, _)
DedupeById(allResults, datasets) ==
    IF datasets = << >>
    THEN allResults
    ELSE IF \E i \in 1..Len(allResults) : allResults[i].id = Head(datasets).id
    THEN DedupeById(allResults, Tail(datasets))
    ELSE DedupeById(Append(allResults, Head(datasets)), Tail(datasets))

\* array.slice(0, n)
Slice0(array, n) == SubSeq(array, 1, IF Len(array) < n THEN Len(array) ELSE n)

\* setFilteredDatasets(allResults.slice(0, 20))
MergedResults(localResults, apiDatasets, allOrgDatasets) ==
    Slice0(DedupeById(<< >>, localResults \o apiDatasets \o allOrgDatasets), 20)

\* the component is mounted: searchQuery = '', the effect ran its first
\* branch
SearchInit ==
    /\ today = IdleDate
    /\ sqQuery = << >>
    /\ sqState = [filteredDatasets |-> << >>, isSearchingAPI |-> FALSE]
    /\ sqRequests = << >>
    /\ MonthParked
    /\ MergeParked
    /\ RankParked
    /\ PipeParked
    /\ IndexParked
    /\ PageParked
    /\ RetryParked
    /\ DetailParked

\* onChange: setSearchQuery(value), and the effect runs on the new query
SearchType ==
    /\ \E query \in SearchQueries \ {sqQuery} :
         /\ sqQuery' = query
         /\ IF Len(query) < 2
            THEN /\ sqState' = [filteredDatasets |-> << >>, isSearchingAPI |-> FALSE]
                 /\ UNCHANGED sqRequests
            ELSE /\ Len(sqRequests) < MaxSearches
                 /\ sqState' = [sqState EXCEPT !.isSearchingAPI = TRUE]
                 /\ sqRequests' = Append(sqRequests,
                                     [ query        |-> query,
                                       localResults |-> LocalResults(query),
                                       pc           |-> "search",
                                       apiDatasets  |-> << >>,
                                       orgs         |-> FALSE,
                                       result       |-> << >> ])
    /\ UNCHANGED << today, scriptVars, pageVars, retryVars, detailVars >>

\* the first Promise.all settles.  Each of the two searches answers or fails
\* (a failure is caught and gives { data: [] }); the .then throws when an
\* answer is not the object expected (the outer catch then shows the first
\* ten local results).
SearchResponses ==
    /\ \E k \in 1..Len(sqRequests), datasets \in {"ok", "failed"},
          orgs \in {"ok", "failed"}, throws \in BOOLEAN :
         LET request == sqRequests[k]
         IN  /\ request.pc = "search"
             /\ throws => (datasets = "ok" /\ orgs = "ok")
             /\ IF throws
                THEN LET result == Slice0(request.localResults, 10)
                     IN  /\ sqState' = [ filteredDatasets |-> result,
                                         isSearchingAPI   |-> FALSE ]
                         /\ sqRequests' = [ sqRequests EXCEPT ![k].pc = "done",
                                                              ![k].result = result ]
                ELSE /\ sqRequests' =
                          [ sqRequests EXCEPT
                              ![k].pc = "orgs",
                              ![k].apiDatasets = IF datasets = "ok"
                                                 THEN ApiDatasets(request.query)
                                                 ELSE << >>,
                              ![k].orgs = (orgs = "ok") ]
                     /\ UNCHANGED sqState
    /\ UNCHANGED << today, sqQuery, scriptVars, pageVars, retryVars, detailVars >>

\* Promise.all(orgPromises) settles: the datasets of the organizations found
\* (none when their requests failed), merged with the local and API results
SearchOrgResponses ==
    /\ \E k \in 1..Len(sqRequests), answered \in BOOLEAN :
         LET request        == sqRequests[k]
             allOrgDatasets == IF request.orgs /\ answered
                               THEN OrgDatasets(request.query)
                               ELSE << >>
             result         == MergedResults(request.localResults,
                                             request.apiDatasets, allOrgDatasets)
         IN  /\ request.pc = "orgs"
             /\ answered \/ request.orgs
             /\ sqState' = [filteredDatasets |-> result, isSearchingAPI |-> FALSE]
             /\ sqRequests' = [ sqRequests EXCEPT ![k].pc = "done",
                                                  ![k].result = result ]
    /\ UNCHANGED << today, sqQuery, scriptVars, pageVars, retryVars, detailVars >>

SearchNext ==
    \/ SearchType
    \/ SearchResponses
    \/ SearchOrgResponses

SearchSpec == SearchInit /\ [][SearchNext]_vars

\* no request is in flight
SqAllDone == \A k \in 1..Len(sqRequests) : sqRequests[k].pc = "done"

\* at most 20 entries, of pairwise distinct ids
SqBounded(results) ==
    /\ Len(results) <= 20
    /\ \A i, j \in 1..Len(results) : i # j => results[i].id # results[j].id

\* C29: while the query has fewer than 2 characters the list of results is
\* empty; when no request is in flight the list is the one computed for the
\* current query; the list has at most 20 entries, of distinct ids.
C29_ResultsOfLatestQuery ==
    /\ Len(sqQuery) < 2 => sqState.filteredDatasets = << >>
    /\ (SqAllDone /\ Len(sqQuery) >= 2) =>
          /\ sqRequests # << >>
          /\ sqRequests[Len(sqRequests)].query = sqQuery
          /\ sqState.filteredDatasets = sqRequests[Len(sqRequests)].result
    /\ SqBounded(sqState.filteredDatasets)

\* C29, its last part alone
C29_AtMost20Distinct == SqBounded(sqState.filteredDatasets)

\* the query was shortened to one character while a search was in flight,
\* and the results of that search are displayed
C29_LateResultsForShortQuery ==
    /\ Len(sqQuery) = 1
    /\ Len(sqRequests) = 1
    /\ SqAllDone
    /\ sqState.filteredDatasets # << >>

\* two searches, both ended, and the list displayed is the one of the first
C29_EarlierResultsShown ==
    /\ Len(sqRequests) = 2
    /\ SqAllDone
    /\ sqQuery = sqRequests[2].query
    /\ sqState.filteredDatasets = sqRequests[1].result
    /\ sqRequests[1].result # sqRequests[2].result

====
